---- MODULE Spec2Model ----
(***************************************************************************)
(* Block-to-links conversion engine of the DatoCMS plugin.                 *)
(*                                                                         *)
(* The module models the schema (item types and fields with their allowed  *)
(* block / link types), the schema path resolver of utils/analyzer.ts, the *)
(* record-creating mapper and the per-field conversion of                  *)
(* utils/converter.ts (the converter text is kept in                       *)
(* src/src/entrypoints/ConfigScreen.tsx, lines 3787-6771).                 *)
(*                                                                         *)
(* Specifications: SpecPaths (path resolver on a family of schemas),       *)
(* SpecMapper (repeated mapper calls), Spec (a whole conversion run),      *)
(* SpecDast (the structured text transforms on a family of documents),     *)
(* SpecField (the conversion of one container field on a family of         *)
(* fields), SpecCount (a run over five records, three of them holding the  *)
(* block), SpecDiscovery (the analysis on item types that are or are not   *)
(* block models), SpecBuilder and SpecBuilderDebug (the api_key and name   *)
(* of the new model in projects with taken keys and names, without and     *)
(* with a debug suffix), SpecLocale (the merge of the locales of a group   *)
(* in projects with other locale lists), SpecSearch (the upward path       *)
(* search step by step, with weak fairness of its steps), SpecScreen (the  *)
(* block selector of the config screen and the analyses it starts),        *)
(* SpecCopy (the copy of the block's fields to the new model) and          *)
(* SpecRename (renameModelToOriginal after the original block is deleted). *)
(***************************************************************************)
EXTENDS Integers, Sequences, FiniteSets, TLC

VARIABLES
    itemTypes,              \* client.itemTypes.list(): sequence of [id, modular_block],
                            \* with api_key and name where the new model is named
    fields,                 \* every field of the project, in listing order
    records,                \* the records of the root models: id -> [type, f]
    created,                \* records created by client.items.create, in order
    pc,                     \* position of convertBlockToModel / analyzeBlock
    fullyReplace,           \* the fullyReplace argument of convertBlockToModel
    modularContentFields,   \* analysis.modularContentFields
    nestedPaths,            \* result of buildNestedPathsToRootModels
    search,                 \* the running findPathsToBlock calls: the loop of
                            \* buildNestedPathsToRootModels, the call stack and
                            \* the visitedBlocks set the calls share
    screen,                 \* ConfigScreen: selectedBlockId and conversionState
    cache,                  \* itemTypesCache and fieldsCache of utils/analyzer.ts
    runs,                   \* the analyzeBlock calls handleBlockSelect has made
    rename,                 \* the renameModelToOriginal call of handleConvert:
                            \* its arguments, locals, position and result
    newModel,               \* newModel.id, "" before createNewModelFromBlock
    globalMapping,          \* globalMapping of convertBlockToModel
    pathIdx,                \* loop variable i of the step 3 loop (1-based)
    mapper,                 \* the running mapper call: its locals and its batch
    migratedRecordsCount,   \* migratedRecordsCount of convertBlockToModel
    fieldIdx,               \* loop variable i of the step 4 loop (1-based)
    conv,                   \* position inside convertModularContentToLinksField
    convertedFieldsCount,   \* convertedFieldsCount of convertBlockToModel
    lastWrite,              \* the last client.items.update request issued: the
                            \* record, the body (api key -> value) and which of
                            \* the keys are localized fields
    failures,               \* API calls that have failed so far
    calls                   \* mapper calls made so far

schemaVars == <<itemTypes, fields>>
uiVars == <<screen, cache, runs, rename>>
analysisVars == <<modularContentFields, nestedPaths, search, uiVars>>
mapVars == <<created, globalMapping, pathIdx, mapper, migratedRecordsCount, calls>>
convVars == <<records, fieldIdx, conv, convertedFieldsCount, lastWrite>>

vars == <<itemTypes, fields, records, created, pc, fullyReplace, modularContentFields,
          nestedPaths, search, screen, cache, runs, rename, newModel, globalMapping,
          pathIdx,
          mapper,
          migratedRecordsCount,
          fieldIdx, conv, convertedFieldsCount, lastWrite, failures, calls>>

-----------------------------------------------------------------------------
(* Identifiers                                                             *)

\* The block model being converted (blockId of convertBlockToModel).
TargetBlock == "T"

\* Field types that can hold blocks.
BlockFieldTypes == {"rich_text", "structured_text", "single_block"}

-----------------------------------------------------------------------------
(* Schema access (utils/analyzer.ts)                                       *)

IsModularBlockAlways(typeId) == TRUE

\* getAllItemTypes / itemType.modular_block
IsModularBlock(typeId) ==
    \E i \in 1..Len(itemTypes) : itemTypes[i].id = typeId /\ itemTypes[i].modular_block

\* getFieldsForItemType: the fields of one item type, in listing order.
getFieldsForItemType(typeId) ==
    SelectSeq(fields, LAMBDA f : f.parent = typeId)

\* The nested loops "for itemType of itemTypes / for field of fields" flattened:
\* all fields in the order the loops visit them.
RECURSIVE FieldsFrom(_)
FieldsFrom(i) ==
    IF i > Len(itemTypes) THEN <<>>
    ELSE getFieldsForItemType(itemTypes[i].id) \o FieldsFrom(i + 1)

FieldsInOrder == FieldsFrom(1)

\* validators.<kind>_blocks.item_types.includes(blockId), for the three kinds
\* of block-holding fields.
ContainsBlock(field, blockId) ==
    /\ field.fieldType \in BlockFieldTypes
    /\ blockId \in field.blocks

\* One hop of a NestedBlockPath.
PathStep(field, blockId) ==
    [fieldApiKey         |-> field.apiKey,
     expectedBlockTypeId |-> blockId,
     localized           |-> field.localized,
     fieldType           |-> field.fieldType]

\* findModularContentFieldsUsingBlock: one ModularContentFieldInfo per field
\* whose validator lists the block.
McFieldInfo(field) ==
    [id              |-> field.id,
     apiKey          |-> field.apiKey,
     parentModelId   |-> field.parent,
     parentIsBlock   |-> IsModularBlock(field.parent),
     localized       |-> field.localized,
     allowedBlockIds |-> field.blocks,
     fieldType       |-> field.fieldType]

findModularContentFieldsUsingBlock(blockId) ==
    LET hits == SelectSeq(FieldsInOrder, LAMBDA f : ContainsBlock(f, blockId))
    IN  [i \in 1..Len(hits) |-> McFieldInfo(hits[i])]

\* findPathsToBlock: upward search from a block model to the root models.
\* visitedBlocks is ONE mutable Set shared by the whole recursion, so the
\* operator returns the set together with the paths.
VisitedAfterRecursion(up, visited) == up.visited

RECURSIVE findPathsToBlock(_, _), ScanFieldsForBlock(_, _, _, _)
findPathsToBlock(blockId, visitedBlocks) ==
    IF blockId \in visitedBlocks
    THEN [result |-> <<>>, visited |-> visitedBlocks]
    ELSE ScanFieldsForBlock(blockId, FieldsInOrder, <<>>, visitedBlocks \cup {blockId})

\* The two nested for-loops of findPathsToBlock; rest holds the fields still to
\* be visited.
ScanFieldsForBlock(blockId, rest, result, visited) ==
    IF rest = <<>> THEN [result |-> result, visited |-> visited]
    ELSE LET field == Head(rest) IN
         IF ~ContainsBlock(field, blockId)
         THEN ScanFieldsForBlock(blockId, Tail(rest), result, visited)
         ELSE IF ~IsModularBlock(field.parent)
         THEN ScanFieldsForBlock(blockId, Tail(rest),
                  Append(result, [rootModelId |-> field.parent,
                                  path |-> <<PathStep(field, blockId)>>]),
                  visited)
         ELSE LET up == findPathsToBlock(field.parent, visited)
                  ext == [k \in 1..Len(up.result) |->
                            [rootModelId |-> up.result[k].rootModelId,
                             path |-> Append(up.result[k].path,
                                             PathStep(field, blockId))]]
              IN  ScanFieldsForBlock(blockId, Tail(rest), result \o ext,
                                     VisitedAfterRecursion(up, visited))

\* buildNestedPathsToRootModels: a fresh visited set per field.
PathsForField(mcField, targetBlockId) ==
    IF ~mcField.parentIsBlock
    THEN LET path == <<[fieldApiKey         |-> mcField.apiKey,
                        expectedBlockTypeId |-> targetBlockId,
                        localized           |-> mcField.localized,
                        fieldType           |-> mcField.fieldType]>>
         IN  <<[rootModelId |-> mcField.parentModelId,
                path |-> path,
                fieldInfo |-> mcField,
                isInLocalizedContext |-> \E s \in 1..Len(path) : path[s].localized]>>
    ELSE LET pathsToParent == findPathsToBlock(mcField.parentModelId, {}).result
         IN  [k \in 1..Len(pathsToParent) |->
                LET fullPath == Append(pathsToParent[k].path,
                                    [fieldApiKey         |-> mcField.apiKey,
                                     expectedBlockTypeId |-> targetBlockId,
                                     localized           |-> mcField.localized,
                                     fieldType           |-> mcField.fieldType])
                IN  [rootModelId |-> pathsToParent[k].rootModelId,
                     path |-> fullPath,
                     fieldInfo |-> mcField,
                     isInLocalizedContext |->
                         \E s \in 1..Len(fullPath) : fullPath[s].localized]]

RECURSIVE PathsFromField(_, _, _)
PathsFromField(mcFields, i, targetBlockId) ==
    IF i > Len(mcFields) THEN <<>>
    ELSE PathsForField(mcFields[i], targetBlockId)
            \o PathsFromField(mcFields, i + 1, targetBlockId)

buildNestedPathsToRootModels(mcFields, targetBlockId) ==
    PathsFromField(mcFields, 1, targetBlockId)

-----------------------------------------------------------------------------
(* Record values as the CMA returns them with nested: true                 *)

\* site.locales of the project
availableLocales == <<"en", "it">>

\* The locale null of findBlocksAtPath (non-localized context).
NoLocale == "none"

NullValue == [k |-> "null"]
StringValue(s) == [k |-> "str", s |-> s]
\* a block object: id, item type and attributes (its field values)
BlockObject(id, typeId, attrs) == [id |-> id, itemType |-> typeId, attributes |-> attrs]
\* rich_text value: array of blocks
BlockArray(items) == [k |-> "list", items |-> items]
\* single_block value: one block
SingleBlock(b) == [k |-> "block", b |-> b]
\* structured_text value: the children of document (type root), the blocks
\* array and the links array; an absent array is the empty one.
StructuredTextValue(children, blocks, links) ==
    [k |-> "dast", children |-> children, blocks |-> blocks, links |-> links]
\* structured_text value of a nested read: the blocks sit in the nodes
DastValue(children, links) == StructuredTextValue(children, <<>>, links)
\* an entry of the links array: minimal ({ id }) or expanded to the record a
\* nested read inlines
DastLinkRecord(id, expanded) == [id |-> id, expanded |-> expanded]
\* the item of a node that holds an id string only
ItemId(id) == [id |-> id]
\* localized value: locale -> value
LocalizedValue(v) == [k |-> "loc", v |-> v]
\* links / link field value: array of record ids
LinkArray(ids) == [k |-> "links", ids |-> ids]

\* DAST nodes
BlockNode(b) == [type |-> "block", item |-> b, children |-> <<>>]
InlineBlockNode(b) == [type |-> "inlineBlock", item |-> b, children |-> <<>>]
InlineItemNode(id) == [type |-> "inlineItem", item |-> [id |-> id], children |-> <<>>]
BlockquoteNode(children) == [type |-> "blockquote", item |-> [id |-> ""], children |-> children]
SpanNode == [type |-> "span", item |-> [id |-> ""], children |-> <<>>]
ParagraphNode(children) == [type |-> "paragraph", item |-> [id |-> ""], children |-> children]

\* !value of JavaScript for the values a field can hold (null, undefined)
IsFalsy(value) == value.k = "null"

\* obj[key] with undefined read as null
FieldValueOf(obj, key) == IF key \in DOMAIN obj THEN obj[key] ELSE NullValue

\* Object.keys of a localized value, in project locale order
LocaleKeys(value) ==
    SelectSeq(availableLocales, LAMBDA l : l \in DOMAIN value.v)

\* typeof value === 'object' && !Array.isArray(value), for a value of a
\* localized field
IsLocaleHash(value) == value.k = "loc"

isStructuredTextValue(value) == value.k = "dast"

isBlockNode(node) == node.type = "block"
isInlineBlockNode(node) == node.type = "inlineBlock"
getBlockNodeItemId(node) == node.item.id
\* "" stands for undefined: the item is a string
getInlinedBlockTypeId(node) ==
    IF "itemType" \in DOMAIN node.item THEN node.item.itemType ELSE ""
getBlockRecordTypeId(block) == block.itemType
\* the entries with the id, first one first; <<>> for undefined
findBlockRecordById(blocks, itemId) == SelectSeq(blocks, LAMBDA b : b.id = itemId)
getBlockTypeId(block) == block.itemType

SameBlockId(block) == "b1"

getBlockId(block) == block.id
getBlockAttributes(block) == block.attributes

\* extractBlocksFromStructuredTextValue: the inlined items of the block and
\* inlineBlock nodes that are direct children of the document root (the
\* blocks-array fallback finds nothing: nested reads inline the blocks).
extractBlocksFromStructuredTextValue(fieldValue) ==
    IF ~isStructuredTextValue(fieldValue) THEN <<>>
    ELSE LET blockChildren ==
                 SelectSeq(fieldValue.children,
                           LAMBDA c : c.type = "block" \/ c.type = "inlineBlock")
         IN  [i \in 1..Len(blockChildren) |-> blockChildren[i].item]

extractBlocksFromFieldValue(fieldValue, fieldType) ==
    IF IsFalsy(fieldValue) THEN <<>>
    ELSE IF fieldType = "rich_text"
         THEN (IF fieldValue.k = "list" THEN fieldValue.items ELSE <<>>)
    ELSE IF fieldType = "structured_text"
         THEN extractBlocksFromStructuredTextValue(fieldValue)
    ELSE IF fieldType = "single_block"
         THEN (IF fieldValue.k = "block" THEN <<fieldValue.b>> ELSE <<>>)
    ELSE <<>>

\* findBlocksAtPath: the target blocks of one record along a path, each with
\* its index trail and locale.  TraverseData is traverse(), BlocksFrom is the
\* forEach of processBlocks (index i is 1-based here, 0-based in the trail),
\* LocalesFrom the loop over the locales of a localized step.
RECURSIVE TraverseData(_, _, _, _, _, _), BlocksFrom(_, _, _, _, _, _, _),
          LocalesFrom(_, _, _, _, _, _)
TraverseData(currentData, path, pathIndex, currentIndices, locale, targetBlockId) ==
    IF pathIndex > Len(path) THEN <<>>
    ELSE LET step == path[pathIndex]
             fieldValue == FieldValueOf(currentData, step.fieldApiKey)
         IN  IF IsFalsy(fieldValue) THEN <<>>
             ELSE IF step.localized /\ IsLocaleHash(fieldValue)
             THEN LocalesFrom(fieldValue, LocaleKeys(fieldValue), path, pathIndex,
                              currentIndices, targetBlockId)
             ELSE BlocksFrom(extractBlocksFromFieldValue(fieldValue, step.fieldType),
                             1, locale, path, pathIndex, currentIndices, targetBlockId)

LocalesFrom(fieldValue, locs, path, pathIndex, currentIndices, targetBlockId) ==
    IF locs = <<>> THEN <<>>
    ELSE BlocksFrom(extractBlocksFromFieldValue(fieldValue.v[Head(locs)],
                                                path[pathIndex].fieldType),
                    1, Head(locs), path, pathIndex, currentIndices, targetBlockId)
         \o LocalesFrom(fieldValue, Tail(locs), path, pathIndex, currentIndices,
                        targetBlockId)

BlocksFrom(blocks, i, loc, path, pathIndex, currentIndices, targetBlockId) ==
    IF i > Len(blocks) THEN <<>>
    ELSE LET block == blocks[i]
             here ==
                 IF pathIndex = Len(path)
                 THEN IF getBlockTypeId(block) = targetBlockId
                      THEN <<[block |-> block,
                              pathIndices |-> Append(currentIndices, i - 1),
                              locale |-> loc]>>
                      ELSE <<>>
                 ELSE IF getBlockTypeId(block) = path[pathIndex].expectedBlockTypeId
                      THEN TraverseData(getBlockAttributes(block), path, pathIndex + 1,
                                        Append(currentIndices, i - 1), loc, targetBlockId)
                      ELSE <<>>
         IN  here \o BlocksFrom(blocks, i + 1, loc, path, pathIndex, currentIndices,
                                targetBlockId)

findBlocksAtPath(record, path, targetBlockId) ==
    TraverseData(record.f, path, 1, <<>>, NoLocale, targetBlockId)

-----------------------------------------------------------------------------
(* Schema family of the resolver specification                             *)

\* Largest number of block types one field of the family allows.
MaxAllowed == 2

ResolverTypes ==
    <<[id |-> "R1", modular_block |-> FALSE],
      [id |-> "R2", modular_block |-> FALSE],
      [id |-> "A",  modular_block |-> TRUE],
      [id |-> "B",  modular_block |-> TRUE],
      [id |-> "T",  modular_block |-> TRUE]>>

ResolverBlocks == {"A", "B", "T"}

ResolverFieldBase ==
    <<[id |-> "f_r1", parent |-> "R1", apiKey |-> "r1", fieldType |-> "rich_text",
       localized |-> TRUE,  blocks |-> {}, links |-> {}],
      [id |-> "f_r2", parent |-> "R2", apiKey |-> "r2", fieldType |-> "structured_text",
       localized |-> FALSE, blocks |-> {}, links |-> {}],
      [id |-> "f_a1", parent |-> "A",  apiKey |-> "a1", fieldType |-> "rich_text",
       localized |-> FALSE, blocks |-> {}, links |-> {}],
      [id |-> "f_a2", parent |-> "A",  apiKey |-> "a2", fieldType |-> "single_block",
       localized |-> FALSE, blocks |-> {}, links |-> {}],
      [id |-> "f_b1", parent |-> "B",  apiKey |-> "b1", fieldType |-> "structured_text",
       localized |-> FALSE, blocks |-> {}, links |-> {}]>>

AllowedChoices == {s \in SUBSET ResolverBlocks : Cardinality(s) <= MaxAllowed}

-----------------------------------------------------------------------------
(* analyzeBlock: schema part                                               *)

\* analyzeBlock throws when the item type is not a block model; the run fails
\* when no field uses the block.
AnalyzeBlock ==
    /\ pc = "start"
    /\ IF ~IsModularBlock(TargetBlock)
       THEN /\ pc' = "failed"
            /\ UNCHANGED analysisVars
       ELSE /\ modularContentFields' = findModularContentFieldsUsingBlock(TargetBlock)
            /\ nestedPaths' = buildNestedPathsToRootModels(
                                  findModularContentFieldsUsingBlock(TargetBlock),
                                  TargetBlock)
            /\ UNCHANGED <<search, uiVars>>
            /\ pc' = IF findModularContentFieldsUsingBlock(TargetBlock) = <<>>
                     THEN "failed" ELSE "analyzed"
    /\ UNCHANGED <<schemaVars, mapVars, convVars, fullyReplace, newModel, failures>>

\* No search, no mapper call, no field conversion, no record update yet.
NoSearch == [i |-> 0, awaiting |-> FALSE, stack |-> <<>>, visited |-> {}]
\* No block selected, conversionState idle; both caches empty.
NoScreen == [selectedBlockId |-> "", status |-> "idle", analysis |-> ""]
NoCache == [itemTypes |-> {}, fields |-> {}]
\* renameModelToOriginal has not been called
NoRename == [stage |-> "idle"]
MapperIdle == [state |-> "idle", path |-> 0, inFlight |-> {}, todo |-> <<>>,
               mapping |-> <<>>, migratedCount |-> 0, done |-> {}]
ConvIdle == [stage |-> "none", kind |-> "", todo |-> <<>>, visited |-> {},
             model |-> "", path |-> 0, target |-> ""]
NoWrite == [rec |-> "", updates |-> <<>>, localizedKeys |-> {}]

\* The state of a run before its first step, apart from the project itself.
Idle ==
    /\ pc = "start"
    /\ modularContentFields = <<>>
    /\ nestedPaths = <<>>
    /\ search = NoSearch
    /\ screen = NoScreen
    /\ cache = NoCache
    /\ runs = <<>>
    /\ rename = NoRename
    /\ created = <<>>
    /\ newModel = ""
    /\ globalMapping = <<>>
    /\ pathIdx = 1
    /\ mapper = MapperIdle
    /\ migratedRecordsCount = 0
    /\ fieldIdx = 1
    /\ conv = ConvIdle
    /\ convertedFieldsCount = 0
    /\ lastWrite = NoWrite
    /\ failures = 0
    /\ calls = 0

InitPaths ==
    /\ itemTypes = ResolverTypes
    /\ \E al \in [1..Len(ResolverFieldBase) -> AllowedChoices] :
          fields = [i \in 1..Len(ResolverFieldBase) |->
                       [ResolverFieldBase[i] EXCEPT !.blocks = al[i]]]
    /\ records = <<>>
    /\ fullyReplace = FALSE
    /\ Idle

NextPaths == AnalyzeBlock

SpecPaths == InitPaths /\ [][NextPaths]_vars

-----------------------------------------------------------------------------
(* Routes of the schema graph, defined without the search                  *)

FieldSet == {fields[i] : i \in 1..Len(fields)}

\* A route is a chain of block-holding fields f1..fn: f1 sits on a root model,
\* each field allows the block model that owns the next one, the last allows
\* the target, and no model occurs twice as an owner (a cycle is a dead end).
\* RoutesTo(b, owners) is the set of chains that end in a field allowing b and
\* whose owners avoid the models in owners.
RECURSIVE RoutesTo(_, _)
RoutesTo(blockId, owners) ==
    UNION { IF ~IsModularBlock(f.parent)
            THEN {<<f>>}
            ELSE {Append(r, f) : r \in RoutesTo(f.parent, owners \cup {f.parent})}
          : f \in {g \in FieldSet : ContainsBlock(g, blockId) /\ g.parent \notin owners} }

Routes(targetBlockId) == RoutesTo(targetBlockId, {})

\* The route a returned path denotes: its root model and the keys of its hops.
RouteKey(s) ==
    [root |-> s[1].parent,
     keys |-> [i \in 1..Len(s) |-> s[i].apiKey]]

PathKey(p) ==
    [root |-> p.rootModelId,
     keys |-> [i \in 1..Len(p.path) |-> p.path[i].fieldApiKey]]

\* C8: the resolver returns exactly one NestedPath per distinct route from a
\* root model's field down to the field holding the target (none missing, none
\* duplicated), and zero paths when no route reaches a root model.
PathCompleteness ==
    pc # "start" =>
        /\ {PathKey(nestedPaths[i]) : i \in 1..Len(nestedPaths)}
              = {RouteKey(s) : s \in Routes(TargetBlock)}
        /\ \A i, j \in 1..Len(nestedPaths) :
              i # j => PathKey(nestedPaths[i]) # PathKey(nestedPaths[j])

\* What the search does guarantee: every returned path is a route, returned once.
PathSoundness ==
    pc # "start" =>
        /\ {PathKey(nestedPaths[i]) : i \in 1..Len(nestedPaths)}
              \subseteq {RouteKey(s) : s \in Routes(TargetBlock)}
        /\ \A i, j \in 1..Len(nestedPaths) :
              i # j => PathKey(nestedPaths[i]) # PathKey(nestedPaths[j])

-----------------------------------------------------------------------------
(* The project of the conversion run                                       *)

\* Two root models, a container block P, another block O, the target T.
RunTypes ==
    <<[id |-> "R1", modular_block |-> FALSE],
      [id |-> "R2", modular_block |-> FALSE],
      [id |-> "P",  modular_block |-> TRUE],
      [id |-> "O",  modular_block |-> TRUE],
      [id |-> "T",  modular_block |-> TRUE]>>

RunFields ==
    <<[id |-> "f_body", parent |-> "R1", apiKey |-> "body",
       fieldType |-> "structured_text", localized |-> TRUE,
       blocks |-> {"T"}, links |-> {}],
      [id |-> "f_items", parent |-> "R1", apiKey |-> "items",
       fieldType |-> "rich_text", localized |-> TRUE,
       blocks |-> {"T", "O"}, links |-> {}],
      [id |-> "f_sec1", parent |-> "R1", apiKey |-> "sections",
       fieldType |-> "rich_text", localized |-> TRUE,
       blocks |-> {"P"}, links |-> {}],
      [id |-> "f_gal", parent |-> "R2", apiKey |-> "gallery",
       fieldType |-> "rich_text", localized |-> FALSE,
       blocks |-> {"T"}, links |-> {}],
      [id |-> "f_sec2", parent |-> "R2", apiKey |-> "sections",
       fieldType |-> "rich_text", localized |-> FALSE,
       blocks |-> {"P"}, links |-> {}],
      [id |-> "f_content", parent |-> "P", apiKey |-> "content",
       fieldType |-> "structured_text", localized |-> FALSE,
       blocks |-> {"T", "O"}, links |-> {}],
      [id |-> "f_title", parent |-> "T", apiKey |-> "title",
       fieldType |-> "string", localized |-> FALSE,
       blocks |-> {}, links |-> {}]>>

\* A target block with its one field.
TBlock(id, title) == BlockObject(id, "T", [title |-> StringValue(title)])
OBlock(id) == BlockObject(id, "O", <<>>)
\* A container block whose content document holds the given root-level blocks.
PBlock(id, blocks) ==
    BlockObject(id, "P",
        [content |-> DastValue([i \in 1..Len(blocks) |-> BlockNode(blocks[i])], <<>>)])

\* listPagedIterator order of the records
RecordIds == <<"r1", "r2", "r3", "r4", "r5">>

\* r1 has both locales, r3 only "en"; r2 belongs to the non-localized model.
RunRecords ==
    [r \in {"r1", "r2", "r3"} |->
        IF r = "r1" THEN
          [type |-> "R1",
           f |-> [body |-> LocalizedValue(
                      [en |-> DastValue(<<BlockNode(TBlock("b3", "t3"))>>, <<>>),
                       it |-> DastValue(
                                <<ParagraphNode(<<SpanNode,
                                      InlineBlockNode(TBlock("b4", "t4"))>>)>>, <<>>)]),
                  items |-> LocalizedValue(
                      [en |-> BlockArray(<<TBlock("b1", "t1"), OBlock("o1")>>),
                       it |-> BlockArray(<<TBlock("b2", "t2")>>)]),
                  sections |-> LocalizedValue(
                      [en |-> BlockArray(<<PBlock("p1", <<TBlock("b5", "t5")>>)>>),
                       it |-> BlockArray(<<PBlock("p1i", <<TBlock("b6", "t6")>>)>>)])]]
        ELSE IF r = "r3" THEN
          [type |-> "R1",
           f |-> [body |-> LocalizedValue([en |-> NullValue]),
                  items |-> LocalizedValue([en |-> BlockArray(<<TBlock("b7", "t7")>>)]),
                  sections |-> LocalizedValue([en |-> BlockArray(<<>>)])]]
        ELSE
          [type |-> "R2",
           f |-> [gallery |-> BlockArray(<<TBlock("b8", "t8")>>),
                  sections |-> BlockArray(
                      <<PBlock("p2", <<TBlock("b9", "t9"), OBlock("o2")>>)>>)]]]

\* client.items.listPagedIterator({ filter: { type: modelId } })
RecordsOfType(modelId) ==
    SelectSeq(RecordIds, LAMBDA r : r \in DOMAIN records /\ records[r].type = modelId)

\* Ids client.items.create hands out, in order.
NewIds == <<"n1", "n2", "n3", "n4", "n5", "n6", "n7", "n8", "n9", "n10", "n11", "n12">>

\* Id of the item type createNewModelFromBlock creates.
NewModelId == "N"

-----------------------------------------------------------------------------
(* Block instances (utils/analyzer.ts)                                     *)

\* pathIndices.join('_')
RECURSIVE JoinIndices(_)
JoinIndices(pathIndices) ==
    IF pathIndices = <<>> THEN ""
    ELSE IF Len(pathIndices) = 1 THEN ToString(pathIndices[1])
    ELSE ToString(Head(pathIndices)) \o "_" \o JoinIndices(Tail(pathIndices))

\* `${record.id}_${pathIndices.join('_')}`
PositionKey(recordId, pathIndices) == recordId \o "_" \o JoinIndices(pathIndices)

\* The listing loop shared by the two instance collectors: every target block
\* of every record of the root model, in listing order.
RECURSIVE FoundFrom(_, _, _)
FoundFrom(recs, nestedPath, targetBlockId) ==
    IF recs = <<>> THEN <<>>
    ELSE LET blocks == findBlocksAtPath(records[Head(recs)], nestedPath.path,
                                        targetBlockId)
         IN  [i \in 1..Len(blocks) |->
                [rootRecordId |-> Head(recs),
                 block        |-> blocks[i].block,
                 pathIndices  |-> blocks[i].pathIndices,
                 locale       |-> blocks[i].locale]]
             \o FoundFrom(Tail(recs), nestedPath, targetBlockId)

\* getAllBlockInstancesNested; a block without id ("") gets a synthetic one.
getAllBlockInstancesNested(nestedPath, targetBlockId) ==
    LET found == FoundFrom(RecordsOfType(nestedPath.rootModelId), nestedPath,
                           targetBlockId)
    IN  [i \in 1..Len(found) |->
            [rootRecordId |-> found[i].rootRecordId,
             locale       |-> found[i].locale,
             blockData    |-> getBlockAttributes(found[i].block),
             blockId      |-> IF getBlockId(found[i].block) # ""
                              THEN getBlockId(found[i].block)
                              ELSE PositionKey(found[i].rootRecordId,
                                               found[i].pathIndices),
             pathIndices  |-> found[i].pathIndices]]

\* The body of the loop of getGroupedBlockInstances: groupMap, kept in insertion
\* order, after the blocks in found have been added.
RECURSIVE GroupInto(_, _)
GroupInto(groups, found) ==
    IF found = <<>> THEN groups
    ELSE LET e == Head(found)
             blockData == getBlockAttributes(e.block)
             blockId == getBlockId(e.block)
             groupKey == PositionKey(e.rootRecordId, e.pathIndices)
             localeKey == IF e.locale = NoLocale THEN "__default__" ELSE e.locale
             trackedId == IF blockId # "" THEN blockId
                          ELSE groupKey \o "_" \o localeKey
             hit == {g \in 1..Len(groups) : groups[g].groupKey = groupKey}
         IN  IF hit = {}
             THEN GroupInto(Append(groups,
                                [groupKey     |-> groupKey,
                                 rootRecordId |-> e.rootRecordId,
                                 pathIndices  |-> e.pathIndices,
                                 localeData   |-> (localeKey :> blockData),
                                 allBlockIds  |-> <<trackedId>>]),
                            Tail(found))
             ELSE LET g == CHOOSE h \in hit : TRUE
                  IN  GroupInto([groups EXCEPT
                                    ![g].localeData = (localeKey :> blockData) @@ @,
                                    ![g].allBlockIds = Append(@, trackedId)],
                                Tail(found))

getGroupedBlockInstances(nestedPath, targetBlockId) ==
    GroupInto(<<>>, FoundFrom(RecordsOfType(nestedPath.rootModelId), nestedPath,
                              targetBlockId))

-----------------------------------------------------------------------------
(* The mappers: migrateBlocksToRecordsNested, migrateGroupedBlocksToRecords *)

\* batchSize both mappers pass to processBatch
BatchSize == 10

\* API calls that may fail in one behaviour.
MaxFailures == 1

\* Mapper calls the mapper specification makes.
MaxCalls == 3

LocaleSet == {availableLocales[i] : i \in 1..Len(availableLocales)}

\* The elements of a sequence.
Range(seq) == {seq[i] : i \in 1..Len(seq)}

FallbackLocaleFirst(localesWithData) ==
    IF localesWithData # <<>> THEN Head(localesWithData) ELSE ""

\* fallbackLocale of migrateGroupedBlocksToRecords: 'en' when the group has
\* data for it, else the first locale of the group ("" for undefined).
FallbackLocale(localesWithData) ==
    IF "en" \in Range(localesWithData) THEN "en"
    ELSE IF localesWithData # <<>> THEN Head(localesWithData)
    ELSE ""

\* Only the locales the group has data for, each with its own value.
OwnLocalesOnly(group, locales) ==
    LET localeKeys == DOMAIN group.localeData
        allFieldKeys == UNION {DOMAIN group.localeData[k] : k \in localeKeys}
    IN  [fieldKey \in allFieldKeys |->
            LocalizedValue([l \in Range(locales) \cap localeKeys |->
                               FieldValueOf(group.localeData[l], fieldKey)])]

\* localizedFieldData of migrateGroupedBlocksToRecords for the locales passed
\* as availableLocales: per field, one value for every locale (own locale,
\* else __default__, else the fallback locale, else null).  The locale keys of
\* a group are in the order of the project's locales, the order in which the
\* instances were collected.  The field values of the target block are
\* primitive, so sanitizeLocalizedFieldValuesForCreation passes them on
\* unchanged.
BuildLocalizedFieldData(group, locales) ==
    LET localeKeys == DOMAIN group.localeData
        allFieldKeys == UNION {DOMAIN group.localeData[k] : k \in localeKeys}
        hasDefaultData == "__default__" \in localeKeys
        localesWithData == SelectSeq(locales, LAMBDA l : l \in localeKeys)
        fallbackLocale == FallbackLocale(localesWithData)
        ValueFor(fieldKey, locale) ==
            LET source == IF locale \in localeKeys THEN locale
                          ELSE IF hasDefaultData THEN "__default__"
                          ELSE ""
            IN  IF source # "" /\ fieldKey \in DOMAIN group.localeData[source]
                THEN group.localeData[source][fieldKey]
                ELSE IF fallbackLocale # ""
                        /\ fieldKey \in DOMAIN group.localeData[fallbackLocale]
                THEN group.localeData[fallbackLocale][fieldKey]
                ELSE NullValue
    IN  [fieldKey \in allFieldKeys |->
            LocalizedValue([l \in Range(locales) |-> ValueFor(fieldKey, l)])]

\* localizedFieldData in the project of the runs below.
LocalizedFieldData(group) == BuildLocalizedFieldData(group, availableLocales)

\* wrapFieldsInLocalizedHash: the same value under every locale.
wrapFieldsInLocalizedHash(data, locales) ==
    [fieldKey \in DOMAIN data |->
        LocalizedValue([l \in {locales[i] : i \in 1..Len(locales)} |-> data[fieldKey]])]

AlreadyMigratedNever(ids, existingMapping) == FALSE

\* The skip test of both mappers: every id already has an entry in the mapping
\* passed in (existingMapping[id] is truthy).
AlreadyMigrated(ids, existingMapping) ==
    \A i \in 1..Len(ids) : ids[i] \in DOMAIN existingMapping

\* groupsToMigrate of migrateGroupedBlocksToRecords, each with the data of the
\* record to create.
GroupedWork(nestedPath, existingMapping) ==
    LET groups == getGroupedBlockInstances(nestedPath, TargetBlock)
        groupsToMigrate ==
            SelectSeq(groups, LAMBDA g : ~AlreadyMigrated(g.allBlockIds, existingMapping))
    IN  [i \in 1..Len(groupsToMigrate) |->
            [key     |-> groupsToMigrate[i].groupKey,
             ids     |-> groupsToMigrate[i].allBlockIds,
             grouped |-> TRUE,
             values  |-> LocalizedFieldData(groupsToMigrate[i])]]

\* uniqueBlocks of migrateBlocksToRecordsNested: first instance of each id that
\* is not in the mapping passed in.
RECURSIVE UniqueBlocks(_, _, _)
UniqueBlocks(instances, seen, existingMapping) ==
    IF instances = <<>> THEN <<>>
    ELSE LET instance == Head(instances)
         IN  IF instance.blockId \notin seen
                /\ ~AlreadyMigrated(<<instance.blockId>>, existingMapping)
             THEN <<instance>> \o UniqueBlocks(Tail(instances),
                                               seen \cup {instance.blockId},
                                               existingMapping)
             ELSE UniqueBlocks(Tail(instances), seen, existingMapping)

PlainWork(nestedPath, existingMapping, forceLocalizedFields) ==
    LET blocksArray == UniqueBlocks(getAllBlockInstancesNested(nestedPath, TargetBlock),
                                    {}, existingMapping)
    IN  [i \in 1..Len(blocksArray) |->
            [key     |-> blocksArray[i].blockId,
             ids     |-> <<blocksArray[i].blockId>>,
             grouped |-> FALSE,
             values  |-> IF forceLocalizedFields /\ Len(availableLocales) > 0
                         THEN wrapFieldsInLocalizedHash(blocksArray[i].blockData,
                                                        availableLocales)
                         ELSE blocksArray[i].blockData]]

\* shouldLocalizeFields of convertBlockToModel
shouldLocalizeFields ==
    \E i \in 1..Len(nestedPaths) : nestedPaths[i].isInLocalizedContext

\* The keys a mapper writes after one create: every contributing block id and,
\* for a group, the group key.
MappedKeysFirstOnly(item) ==
    {item.ids[1]} \cup (IF item.grouped THEN {item.key} ELSE {})

MappedKeys(item) ==
    {item.ids[i] : i \in 1..Len(item.ids)} \cup (IF item.grouped THEN {item.key} ELSE {})

\* A mapper call starts: locals initialised, instances collected and filtered,
\* the first batch handed to Promise.all.
StartMapper(i) ==
    LET nestedPath == nestedPaths[i]
        work == IF nestedPath.isInLocalizedContext
                THEN GroupedWork(nestedPath, globalMapping)
                ELSE PlainWork(nestedPath, globalMapping, shouldLocalizeFields)
        n == IF Len(work) < BatchSize THEN Len(work) ELSE BatchSize
    IN  /\ mapper' = [mapper EXCEPT
                          !.state = "running",
                          !.path = i,
                          !.inFlight = {work[k] : k \in 1..n},
                          !.todo = SubSeq(work, n + 1, Len(work)),
                          !.mapping = <<>>,
                          !.migratedCount = Cardinality(DOMAIN globalMapping)]
        /\ calls' = calls + 1

\* Step 3 loop of convertBlockToModel: the mapper call of the next path.
StartPath ==
    /\ pc = "mapping"
    /\ mapper.state = "idle"
    /\ pathIdx <= Len(nestedPaths)
    /\ StartMapper(pathIdx)
    /\ UNCHANGED <<schemaVars, analysisVars, convVars, pc, fullyReplace, newModel,
                   created, globalMapping, pathIdx, migratedRecordsCount, failures>>

\* client.items.create of one batch member succeeds: the record exists, the
\* mapper's own mapping gets the entries, onMigrated reports the count.  The
\* create can also complete after another member of the batch has failed.
CreateOk ==
    \E item \in mapper.inFlight :
        /\ Len(created) < Len(NewIds)
        /\ LET newRecordId == NewIds[Len(created) + 1] IN
           /\ created' = Append(created,
                            [id |-> newRecordId, itemType |-> newModel,
                             values |-> item.values, key |-> item.key,
                             ids |-> item.ids, grouped |-> item.grouped,
                             path |-> mapper.path, call |-> calls])
           /\ mapper' = [mapper EXCEPT
                            !.inFlight = @ \ {item},
                            !.mapping = [k \in MappedKeys(item) |-> newRecordId] @@ @,
                            !.migratedCount = @ + 1]
           /\ migratedRecordsCount' = mapper.migratedCount + 1
        /\ UNCHANGED <<schemaVars, analysisVars, convVars, pc, fullyReplace, newModel,
                       globalMapping, pathIdx, failures, calls>>

\* client.items.create of one batch member fails: Promise.all rejects, the
\* mapper rethrows, convertBlockToModel returns a failure; the mapper's own
\* mapping is never merged.
CreateFail ==
    \E item \in mapper.inFlight :
        /\ failures < MaxFailures
        /\ failures' = failures + 1
        /\ mapper' = [mapper EXCEPT !.inFlight = @ \ {item}, !.state = "thrown"]
        /\ pc' = "failed"
        /\ UNCHANGED <<schemaVars, analysisVars, convVars, fullyReplace, newModel,
                       created, globalMapping, pathIdx, migratedRecordsCount, calls>>

\* A batch has settled: processBatch takes the next batch, or the mapper
\* returns and the caller merges its mapping (Object.assign).
MapperAdvance ==
    /\ mapper.state = "running"
    /\ mapper.inFlight = {}
    /\ IF mapper.todo # <<>>
       THEN LET n == IF Len(mapper.todo) < BatchSize THEN Len(mapper.todo)
                     ELSE BatchSize
            IN  /\ mapper' = [mapper EXCEPT
                                 !.inFlight = {mapper.todo[k] : k \in 1..n},
                                 !.todo = SubSeq(mapper.todo, n + 1, Len(mapper.todo))]
                /\ UNCHANGED <<globalMapping, pathIdx>>
       ELSE /\ globalMapping' = mapper.mapping @@ globalMapping
            /\ pathIdx' = mapper.path + 1
            /\ mapper' = [mapper EXCEPT !.state = "idle",
                                        !.done = @ \cup {mapper.path}]
    /\ UNCHANGED <<schemaVars, analysisVars, convVars, pc, fullyReplace, newModel,
                   created, migratedRecordsCount, failures, calls>>

-----------------------------------------------------------------------------
(* createNewModelFromBlock                                                 *)

\* The item type created and the copies of the block's fields, every copy
\* localized when forceLocalizedFields is set.
NewModelFields(blockId, forceLocalizedFields) ==
    LET blockFields == getFieldsForItemType(blockId)
    IN  [i \in 1..Len(blockFields) |->
            [blockFields[i] EXCEPT
                !.id = "n_" \o blockFields[i].id,
                !.parent = NewModelId,
                !.localized = IF forceLocalizedFields THEN TRUE ELSE @]]

\* createNewModelFromBlock in a project where no item type has the api_key or
\* the name of the new model.
CreateNewModel ==
    /\ pc = "analyzed"
    /\ itemTypes' = Append(itemTypes, [id |-> NewModelId, modular_block |-> FALSE])
    /\ fields' = fields \o NewModelFields(TargetBlock, shouldLocalizeFields)
    /\ newModel' = NewModelId
    /\ pc' = "mapping"
    /\ UNCHANGED <<analysisVars, mapVars, convVars, fullyReplace, failures>>

-----------------------------------------------------------------------------
(* createNewModelFromBlock: the api_key and the name of the new model.      *)
(* Strings are sequences of characters here; the item types of the projects *)
(* below carry their api_key and their name.                                *)

\* API_KEY_MAX_LENGTH
API_KEY_MAX_LENGTH == 40

\* The retry ceiling of the uniqueness loop: if (counter > 100) throw
MaxAttempts == 100

Alphabet ==
    <<"a", "b", "c", "d", "e", "f", "g", "h", "i", "j", "k", "l", "m",
      "n", "o", "p", "q", "r", "s", "t", "u", "v", "w", "x", "y", "z">>

UpperAlphabet ==
    <<"A", "B", "C", "D", "E", "F", "G", "H", "I", "J", "K", "L", "M",
      "N", "O", "P", "Q", "R", "S", "T", "U", "V", "W", "X", "Y", "Z">>

DigitChars == <<"0", "1", "2", "3", "4", "5", "6", "7", "8", "9">>

IsLowerLetter(c) == \E i \in 1..26 : Alphabet[i] = c
IsUpperLetter(c) == \E i \in 1..26 : UpperAlphabet[i] = c
IsDigit(c) == \E i \in 1..10 : DigitChars[i] = c

\* String.prototype.toLowerCase, one character
ToLowerChar(c) ==
    IF IsUpperLetter(c) THEN Alphabet[CHOOSE i \in 1..26 : UpperAlphabet[i] = c] ELSE c

toLowerCase(str) == [i \in 1..Len(str) |-> ToLowerChar(str[i])]

\* The characters of str at the positions that satisfy Keep, in order.
KeepPositions(str, Keep(_)) ==
    LET kept == SelectSeq([i \in 1..Len(str) |-> i], Keep)
    IN  [k \in 1..Len(kept) |-> str[kept[k]]]

\* .replace(/_+/g, '_'): of a run of underscores the first one stays
CollapseUnderscores(str) ==
    KeepPositions(str, LAMBDA i : ~(str[i] = "_" /\ i > 1 /\ str[i - 1] = "_"))

\* .replace(/_$/, '')
StripOneTrailing(str) ==
    IF str # <<>> /\ str[Len(str)] = "_" THEN SubSeq(str, 1, Len(str) - 1) ELSE str

\* .replace(/^_|_$/g, '')
StripOneEachEnd(str) ==
    LET s1 == IF str # <<>> /\ str[1] = "_" THEN Tail(str) ELSE str
    IN  StripOneTrailing(s1)

\* .replace(/^_+|_+$/g, ''): what lies between the first and the last
\* character that is not an underscore
StripAllEachEnd(str) ==
    LET solid == {i \in 1..Len(str) : str[i] # "_"}
    IN  IF solid = {} THEN <<>>
        ELSE SubSeq(str, CHOOSE i \in solid : \A j \in solid : i <= j,
                         CHOOSE i \in solid : \A j \in solid : j <= i)

\* str.slice(0, end), end possibly negative
SliceTo(str, end) ==
    LET stop == IF end >= 0 THEN (IF end < Len(str) THEN end ELSE Len(str))
                ELSE (IF Len(str) + end > 0 THEN Len(str) + end ELSE 0)
    IN  SubSeq(str, 1, stop)

\* sanitizedBlockApiKey, with the plural "s"
SanitizedBlockApiKey(blockApiKey) ==
    LET lowered == toLowerCase(blockApiKey)
        replaced == [i \in 1..Len(lowered) |->
                        IF IsLowerLetter(lowered[i]) \/ IsDigit(lowered[i])
                           \/ lowered[i] = "_"
                        THEN lowered[i] ELSE "_"]
        cleaned == StripOneEachEnd(CollapseUnderscores(replaced))
    IN  IF cleaned # <<>> /\ cleaned[Len(cleaned)] = "s" THEN cleaned
        ELSE cleaned \o <<"s">>

\* debugSuffix: rawDebugSuffix.replace(/[^a-z_]/gi, '').toLowerCase(); the
\* converter without debug options has the empty suffix.
SanitizedDebugSuffix(rawDebugSuffix) ==
    toLowerCase(SelectSeq(rawDebugSuffix,
                          LAMBDA c : IsLowerLetter(c) \/ IsUpperLetter(c) \/ c = "_"))

\* suffixPart
SuffixPart(rawDebugSuffix) ==
    <<"_", "c", "o", "n", "v">> \o SanitizedDebugSuffix(rawDebugSuffix)

\* baseApiKey: the block key cut to maxBaseLength, then the suffix part
BaseApiKey(blockApiKey, rawDebugSuffix) ==
    LET sanitized == SanitizedBlockApiKey(blockApiKey)
        maxBaseLength == API_KEY_MAX_LENGTH - Len(SuffixPart(rawDebugSuffix)) - 3
        truncated == IF Len(sanitized) > maxBaseLength
                     THEN StripOneTrailing(SliceTo(sanitized, maxBaseLength))
                     ELSE sanitized
    IN  truncated \o SuffixPart(rawDebugSuffix)

\* counterToLetterSuffix: a, b, ..., z, aa, ab, ...
RECURSIVE counterToLetterSuffix(_)
counterToLetterSuffix(n) ==
    IF n <= 0 THEN <<>>
    ELSE counterToLetterSuffix((n - 1) \div 26) \o <<Alphabet[((n - 1) % 26) + 1]>>

\* sanitizeApiKey: letters and underscores only
sanitizeApiKey(key) ==
    StripAllEachEnd(CollapseUnderscores(
        SelectSeq(toLowerCase(key), LAMBDA c : IsLowerLetter(c) \/ c = "_")))

\* String(counter)
RECURSIVE DecimalOf(_)
DecimalOf(n) ==
    IF n < 10 THEN <<DigitChars[n + 1]>>
    ELSE DecimalOf(n \div 10) \o <<DigitChars[(n % 10) + 1]>>

IsSpace(c) == c = " "

\* String.prototype.trim
RECURSIVE Trim(_)
Trim(str) ==
    IF str # <<>> /\ IsSpace(str[1]) THEN Trim(Tail(str))
    ELSE IF str # <<>> /\ IsSpace(str[Len(str)]) THEN Trim(SubSeq(str, 1, Len(str) - 1))
    ELSE str

\* baseName: name.replace(/[^\w\s-]/g, '').trim() || 'Converted Block'
BaseName(blockName) ==
    LET kept == Trim(SelectSeq(blockName,
                        LAMBDA c : IsLowerLetter(c) \/ IsUpperLetter(c) \/ IsDigit(c)
                                   \/ c = "_" \/ IsSpace(c) \/ c = "-"))
    IN  IF kept = <<>>
        THEN <<"C", "o", "n", "v", "e", "r", "t", "e", "d", " ", "B", "l", "o", "c", "k">>
        ELSE kept

\* debugNameSuffix
DebugNameSuffix(rawDebugSuffix) ==
    IF rawDebugSuffix = <<>> THEN <<>> ELSE <<" ">> \o rawDebugSuffix

\* finalApiKey of the attempt with the given counter
FinalApiKey(baseApiKey, counter) ==
    IF counter = 0 THEN sanitizeApiKey(baseApiKey)
    ELSE sanitizeApiKey(baseApiKey \o <<"_">> \o counterToLetterSuffix(counter))

\* finalName of the attempt with the given counter
FinalName(baseName, debugNameSuffix, counter) ==
    baseName
        \o <<" ", "(", "C", "o", "n", "v", "e", "r", "t", "e", "d">>
        \o (IF counter = 0 THEN <<>> ELSE <<" ">> \o DecimalOf(counter))
        \o <<")">>
        \o debugNameSuffix

\* The two, from the key and the name of the block
CandidateApiKey(blockApiKey, rawDebugSuffix, counter) ==
    FinalApiKey(BaseApiKey(blockApiKey, rawDebugSuffix), counter)

CandidateName(blockName, rawDebugSuffix, counter) ==
    FinalName(BaseName(blockName), DebugNameSuffix(rawDebugSuffix), counter)

\* The condition of the while loop
Collides(existingModels, apiKey, name) ==
    \/ \E i \in 1..Len(existingModels) : existingModels[i].api_key = apiKey
    \/ \E i \in 1..Len(existingModels) : existingModels[i].name = name

ExceedsCeilingLate(counter) == counter > MaxAttempts + 1

\* if (counter > 100)
ExceedsCeiling(counter) == counter > MaxAttempts

\* The while loop: the first attempt that does not collide, or the throw.
RECURSIVE UniquenessLoop(_, _, _, _, _)
UniquenessLoop(existingModels, baseApiKey, baseName, debugNameSuffix, counter) ==
    LET finalApiKey == FinalApiKey(baseApiKey, counter)
        finalName == FinalName(baseName, debugNameSuffix, counter)
    IN  IF Collides(existingModels, finalApiKey, finalName)
        THEN IF ExceedsCeiling(counter + 1)
             THEN [thrown |-> TRUE, counter |-> counter + 1,
                   api_key |-> <<>>, name |-> <<>>]
             ELSE UniquenessLoop(existingModels, baseApiKey, baseName, debugNameSuffix,
                                 counter + 1)
        ELSE [thrown |-> FALSE, counter |-> counter,
              api_key |-> finalApiKey, name |-> finalName]

\* validatedApiKey: the final length check
ValidatedApiKey(finalApiKey) ==
    IF Len(finalApiKey) > API_KEY_MAX_LENGTH
    THEN StripOneTrailing(SliceTo(finalApiKey, API_KEY_MAX_LENGTH))
    ELSE finalApiKey

\* The item type the listing shows for an id.
ItemTypeById(id) == itemTypes[CHOOSE i \in 1..Len(itemTypes) : itemTypes[i].id = id]

\* createNewModelFromBlock with the given debug suffix: the model is created
\* under the validated key, or the function throws (ceiling reached, empty
\* key) and the run fails before any request.
CreateModelNamed(rawDebugSuffix) ==
    /\ pc = "analyzed"
    /\ LET block == ItemTypeById(TargetBlock)
           found == UniquenessLoop(itemTypes,
                                   BaseApiKey(block.api_key, rawDebugSuffix),
                                   BaseName(block.name),
                                   DebugNameSuffix(rawDebugSuffix), 0)
       IN  IF found.thrown \/ ValidatedApiKey(found.api_key) = <<>>
           THEN /\ pc' = "failed"
                /\ UNCHANGED <<itemTypes, fields, newModel>>
           ELSE /\ itemTypes' = Append(itemTypes,
                                    [id |-> NewModelId, modular_block |-> FALSE,
                                     api_key |-> ValidatedApiKey(found.api_key),
                                     name |-> found.name])
                /\ fields' = fields \o NewModelFields(TargetBlock, shouldLocalizeFields)
                /\ newModel' = NewModelId
                /\ pc' = "mapping"
    /\ UNCHANGED <<analysisVars, mapVars, convVars, fullyReplace, failures>>

\* createNewModelFromBlock of the converter (no debug options)
CreateNamedModel == CreateModelNamed(<<>>)

Repeat(c, n) == [i \in 1..n |-> c]

\* Debug suffixes: one of the shape generateDebugSuffix produces, the
\* placeholder of the suffix field, a long one typed by the user.
DebugSuffixes ==
    {<<"_", "d", "e", "v", "_", "q", "w", "e", "r", "t", "y">>,
     <<"_", "d", "e", "v", "_", "0", "0", "1">>,
     <<"_", "d", "e", "v", "_">> \o Repeat("x", 30)}

\* createNewModelFromBlock of the converter with debug options: the suffix is
\* what the debug suffix field holds.
CreateNamedModelDebug ==
    \E rawDebugSuffix \in DebugSuffixes : CreateModelNamed(rawDebugSuffix)

-----------------------------------------------------------------------------
(* Specification of the mappers: calls on any path, any number of times,   *)
(* each with the mapping accumulated by the calls that returned.           *)

InitMapper ==
    /\ itemTypes = Append(RunTypes, [id |-> NewModelId, modular_block |-> FALSE])
    /\ fields = RunFields \o [i \in 1..1 |->
                    [RunFields[Len(RunFields)] EXCEPT !.id = "n_f_title",
                         !.parent = NewModelId, !.localized = TRUE]]
    /\ records = RunRecords
    /\ fullyReplace = FALSE
    /\ pc = "mapping"
    /\ modularContentFields = findModularContentFieldsUsingBlock(TargetBlock)
    /\ nestedPaths = buildNestedPathsToRootModels(
                         findModularContentFieldsUsingBlock(TargetBlock), TargetBlock)
    /\ search = NoSearch
    /\ screen = NoScreen
    /\ cache = NoCache
    /\ runs = <<>>
    /\ rename = NoRename
    /\ created = <<>>
    /\ newModel = NewModelId
    /\ globalMapping = <<>>
    /\ pathIdx = 1
    /\ mapper = MapperIdle
    /\ migratedRecordsCount = 0
    /\ fieldIdx = 1
    /\ conv = ConvIdle
    /\ convertedFieldsCount = 0
    /\ lastWrite = NoWrite
    /\ failures = 0
    /\ calls = 0

\* A mapper call with the accumulated mapping: the first call on a path, a
\* repeated call, or a call after one that threw.
InvokeMapper ==
    \E i \in 1..Len(nestedPaths) :
        /\ pc \in {"mapping", "failed"}
        /\ mapper.state \in {"idle", "thrown"}
        /\ mapper.inFlight = {}
        /\ calls < MaxCalls
        /\ StartMapper(i)
        /\ pc' = "mapping"
        /\ UNCHANGED <<schemaVars, analysisVars, convVars, fullyReplace, newModel,
                       created, globalMapping, pathIdx, migratedRecordsCount, failures>>

NextMapper == InvokeMapper \/ CreateOk \/ CreateFail \/ MapperAdvance

SpecMapper == InitMapper /\ [][NextMapper]_vars

-----------------------------------------------------------------------------
(* Properties of the mappers                                               *)

\* Ids of the block instances a created record stands for.
InstanceIds(c) == {c.ids[i] : i \in 1..Len(c.ids)}

\* C4: a mapper call (plain or grouped) on a path whose earlier call has
\* returned, made with the mapping accumulated so far, creates no standalone
\* record and adds no entry to the mapping.
SecondRunCreatesNothing ==
    [][(mapper.state = "running" /\ mapper.path \in mapper.done)
          => (created' = created /\ globalMapping' = globalMapping)]_vars

\* A repeated call on a path that has instances is running; it has filtered out
\* every instance.
SecondRunReached ==
    /\ mapper.state = "running"
    /\ mapper.path \in mapper.done
    /\ mapper.inFlight = {}
    /\ mapper.todo = <<>>
    /\ \E i \in 1..Len(created) : created[i].path = mapper.path

\* C5: no block instance gets a second standalone record, also when a create
\* failed part-way and the mapper is called again with the accumulated mapping.
NoDuplicateAfterFailure ==
    \A i, j \in 1..Len(created) :
        i # j => InstanceIds(created[i]) \cap InstanceIds(created[j]) = {}

-----------------------------------------------------------------------------
(* DAST transformation (utils/dast.ts, kept in src/src/utils/locale.ts)    *)

\* traverseDast restricted to block and inlineBlock nodes: the nodes of a
\* subtree, in document order.
RECURSIVE BlockNodesIn(_), BlockNodesInAll(_)
BlockNodesIn(node) ==
    (IF isBlockNode(node) \/ isInlineBlockNode(node) THEN <<node>> ELSE <<>>)
        \o BlockNodesInAll(node.children)

BlockNodesInAll(children) ==
    IF children = <<>> THEN <<>>
    ELSE BlockNodesIn(Head(children)) \o BlockNodesInAll(Tail(children))

\* blockTypeId of findBlockNodesInDast, replaceBlockNodesInTree and
\* addInlineItemsAlongsideBlocksInTree: the type of the inlined item, else the
\* type of the entry of the blocks array with the id of the node.
blockTypeId(node, blocks) ==
    LET blockRecord == findBlockRecordById(blocks, getBlockNodeItemId(node))
    IN  IF getInlinedBlockTypeId(node) # "" THEN getInlinedBlockTypeId(node)
        ELSE IF blockRecord # <<>> THEN getBlockRecordTypeId(blockRecord[1])
        ELSE ""

findBlockNodesOfAnyType(structuredTextValue, targetBlockTypeId) ==
    BlockNodesInAll(structuredTextValue.children)

findBlockNodesOfType(structuredTextValue, targetBlockTypeId) ==
    SelectSeq(BlockNodesInAll(structuredTextValue.children),
              LAMBDA n : blockTypeId(n, structuredTextValue.blocks) = targetBlockTypeId)

\* The test of replaceBlockNodesInTree and addInlineItemsAlongsideBlocksInTree:
\* blockTypeId === targetBlockTypeId && itemId && mapping[itemId]
IsMappedTargetNode(node, targetBlockTypeId, blocks, mapping) ==
    /\ isBlockNode(node) \/ isInlineBlockNode(node)
    /\ blockTypeId(node, blocks) = targetBlockTypeId
    /\ getBlockNodeItemId(node) # ""
    /\ getBlockNodeItemId(node) \in DOMAIN mapping

WrappedInlineItemBare(newRecordId) == InlineItemNode(newRecordId)

\* The replacement at root level: a paragraph of an empty span and the
\* inlineItem.
WrappedInlineItem(newRecordId) == ParagraphNode(<<SpanNode, InlineItemNode(newRecordId)>>)

ReplacementKept(node, newRecordId, isRootLevel) == node

\* The node replaceBlockNodesInTree returns for a node it converts.
Replacement(node, newRecordId, isRootLevel) ==
    IF isRootLevel /\ node.type = "block"
    THEN WrappedInlineItem(newRecordId)
    ELSE InlineItemNode(newRecordId)

\* replaceBlockNodesInTree; the children of the root are handed in by
\* transformDastBlocksToLinks with isRootLevel set.
RECURSIVE replaceBlockNodesInTree(_, _, _, _, _)
replaceBlockNodesInTree(node, targetBlockTypeId, blocks, mapping, isRootLevel) ==
    IF IsMappedTargetNode(node, targetBlockTypeId, blocks, mapping)
    THEN Replacement(node, mapping[getBlockNodeItemId(node)], isRootLevel)
    ELSE [node EXCEPT !.children =
             [i \in 1..Len(node.children) |->
                 replaceBlockNodesInTree(node.children[i], targetBlockTypeId,
                                         blocks, mapping, FALSE)]]

\* The nodes the tree walk converts, in document order.
ConvertedNodes(structuredTextValue, targetBlockTypeId, mapping) ==
    SelectSeq(BlockNodesInAll(structuredTextValue.children),
              LAMBDA n : IsMappedTargetNode(n, targetBlockTypeId,
                                            structuredTextValue.blocks, mapping))

\* newLinks: { id } of the record of every converted node, in order.
NewLinks(structuredTextValue, targetBlockTypeId, mapping) ==
    LET hits == ConvertedNodes(structuredTextValue, targetBlockTypeId, mapping)
    IN  [i \in 1..Len(hits) |-> DastLinkRecord(mapping[getBlockNodeItemId(hits[i])], FALSE)]

\* blocksToRemove: the ids of the converted nodes.
BlocksToRemove(structuredTextValue, targetBlockTypeId, mapping) ==
    LET hits == ConvertedNodes(structuredTextValue, targetBlockTypeId, mapping)
    IN  {getBlockNodeItemId(hits[i]) : i \in 1..Len(hits)}

\* result.links.map(l => ({ id: l.id }))
NormalizeLinks(links) == [i \in 1..Len(links) |-> DastLinkRecord(links[i].id, FALSE)]

\* result.blocks.map(block => ({ id, type, attributes, relationships }))
NormalizeBlocks(blocks) ==
    [i \in 1..Len(blocks) |->
        [id |-> blocks[i].id, itemType |-> blocks[i].itemType,
         attributes |-> blocks[i].attributes]]

AddAllLinks(links, newLinks) == links \o newLinks

\* "Add only unique links"
RECURSIVE AddUniqueLinks(_, _)
AddUniqueLinks(links, newLinks) ==
    IF newLinks = <<>> THEN links
    ELSE IF \E i \in 1..Len(links) : links[i].id = Head(newLinks).id
         THEN AddUniqueLinks(links, Tail(newLinks))
         ELSE AddUniqueLinks(Append(links, Head(newLinks)), Tail(newLinks))

\* The links array transformDastBlocksToLinks returns: normalized only when
\* the walk has converted a node.
ReplacedLinks(links, newLinks) ==
    IF newLinks # <<>> THEN AddUniqueLinks(NormalizeLinks(links), newLinks) ELSE links

\* transformDastBlocksToLinks; NullValue stands for the null it returns when the
\* document has no node of the target type.
transformDastBlocksToLinks(structuredTextValue, targetBlockTypeId, mapping) ==
    IF findBlockNodesOfType(structuredTextValue, targetBlockTypeId) = <<>>
    THEN NullValue
    ELSE StructuredTextValue(
            [i \in 1..Len(structuredTextValue.children) |->
                replaceBlockNodesInTree(structuredTextValue.children[i],
                                        targetBlockTypeId, structuredTextValue.blocks,
                                        mapping, TRUE)],
            NormalizeBlocks(
                SelectSeq(structuredTextValue.blocks,
                          LAMBDA b : b.id \notin BlocksToRemove(structuredTextValue,
                                                              targetBlockTypeId, mapping))),
            ReplacedLinks(structuredTextValue.links,
                          NewLinks(structuredTextValue, targetBlockTypeId, mapping)))

AddAlongsideNothing(children, targetBlockTypeId, blocks, mapping, childrenAreRootLevel) == children

\* addInlineItemsAlongsideBlocksInTree on the children of one node.  The block
\* nodes are sent back with their item reduced to its id, which leaves the
\* stored block as it is.
RECURSIVE AddAlongside(_, _, _, _, _)
AddAlongside(children, targetBlockTypeId, blocks, mapping, childrenAreRootLevel) ==
    IF children = <<>> THEN <<>>
    ELSE LET childNode == Head(children)
             processedChild ==
                 [childNode EXCEPT !.children =
                     AddAlongside(childNode.children, targetBlockTypeId, blocks,
                                  mapping, FALSE)]
             added ==
                 IF IsMappedTargetNode(childNode, targetBlockTypeId, blocks, mapping)
                 THEN IF childrenAreRootLevel /\ childNode.type = "block"
                      THEN <<WrappedInlineItem(mapping[getBlockNodeItemId(childNode)])>>
                      ELSE <<InlineItemNode(mapping[getBlockNodeItemId(childNode)])>>
                 ELSE <<>>
         IN  <<processedChild>> \o added
                 \o AddAlongside(Tail(children), targetBlockTypeId, blocks, mapping,
                                 childrenAreRootLevel)

\* addInlineItemsAlongsideBlocks: the links array is always normalized, every
\* entry of the blocks array stays.
addInlineItemsAlongsideBlocks(structuredTextValue, targetBlockTypeId, mapping) ==
    IF findBlockNodesOfType(structuredTextValue, targetBlockTypeId) = <<>>
    THEN NullValue
    ELSE StructuredTextValue(
            AddAlongside(structuredTextValue.children, targetBlockTypeId,
                         structuredTextValue.blocks, mapping, TRUE),
            NormalizeBlocks(structuredTextValue.blocks),
            AddUniqueLinks(NormalizeLinks(structuredTextValue.links),
                           NewLinks(structuredTextValue, targetBlockTypeId, mapping)))

\* extractLinksFromStructuredText
extractLinksFromStructuredText(structuredTextValue, targetBlockTypeId, mapping) ==
    LET blockNodes == SelectSeq(findBlockNodesOfType(structuredTextValue, targetBlockTypeId),
                                LAMBDA n : getBlockNodeItemId(n) \in DOMAIN mapping)
    IN  [i \in 1..Len(blockNodes) |-> mapping[getBlockNodeItemId(blockNodes[i])]]

-----------------------------------------------------------------------------
(* Value rewriting of the converter                                        *)

\* link field value: one record id or null
SingleLink(id) == [k |-> "link", id |-> id]

\* extractBlocksFromValue of the converter: for structured text only the
\* root-level nodes of type block count.
extractBlocksFromValue(fieldValue, fieldType) ==
    IF IsFalsy(fieldValue) THEN <<>>
    ELSE IF fieldType = "rich_text"
         THEN (IF fieldValue.k = "list" THEN fieldValue.items ELSE <<>>)
    ELSE IF fieldType = "structured_text"
         THEN (IF fieldValue.k = "dast"
               THEN LET blockChildren == SelectSeq(fieldValue.children,
                                                   LAMBDA c : c.type = "block")
                    IN  [i \in 1..Len(blockChildren) |-> blockChildren[i].item]
               ELSE <<>>)
    ELSE IF fieldType = "single_block"
         THEN (IF fieldValue.k = "block" THEN <<fieldValue.b>> ELSE <<>>)
    ELSE <<>>

\* getNestedFieldValueFromBlock / setNestedFieldValueInBlock: nested reads keep
\* the field values of a block under attributes.
getNestedFieldValueFromBlock(block, fieldApiKey) ==
    FieldValueOf(block.attributes, fieldApiKey)

setNestedFieldValueInBlock(block, fieldApiKey, value) ==
    IF fieldApiKey \in DOMAIN block.attributes
    THEN [block EXCEPT !.attributes[fieldApiKey] = value]
    ELSE (fieldApiKey :> value) @@ block

\* reconstructStructuredTextWithUpdatedBlocks: the k-th root-level block node
\* takes the k-th updated block.
RECURSIVE ReplaceBlockItems(_, _)
ReplaceBlockItems(children, updatedBlocks) ==
    IF children = <<>> THEN <<>>
    ELSE IF Head(children).type = "block" /\ updatedBlocks # <<>>
         THEN <<[Head(children) EXCEPT !.item = Head(updatedBlocks)]>>
                  \o ReplaceBlockItems(Tail(children), Tail(updatedBlocks))
         ELSE <<Head(children)>> \o ReplaceBlockItems(Tail(children), updatedBlocks)

reconstructStructuredTextWithUpdatedBlocks(originalValue, updatedBlocks) ==
    [originalValue EXCEPT !.children = ReplaceBlockItems(@, updatedBlocks)]

\* The value a step's field takes from its rewritten blocks.
RebuildValue(original, fieldType, newBlocks) ==
    IF fieldType = "single_block"
    THEN (IF newBlocks = <<>> THEN NullValue ELSE SingleBlock(newBlocks[1]))
    ELSE IF fieldType = "structured_text"
    THEN reconstructStructuredTextWithUpdatedBlocks(original, newBlocks)
    ELSE BlockArray(newBlocks)

\* updateBlockFn of migrateNestedStructuredTextFieldData (partial = FALSE) and
\* of migrateNestedStructuredTextFieldDataPartial (partial = TRUE).
UpdateParentBlock(blockData, fieldApiKey, mapping, partial) ==
    LET stValue == getNestedFieldValueFromBlock(blockData, fieldApiKey)
        transformed ==
            IF partial
            THEN addInlineItemsAlongsideBlocks(stValue, TargetBlock, mapping)
            ELSE transformDastBlocksToLinks(stValue, TargetBlock, mapping)
    IN  IF IsFalsy(stValue) \/ ~isStructuredTextValue(stValue) THEN blockData
        ELSE IF ~IsFalsy(transformed)
             THEN setNestedFieldValueInBlock(blockData, fieldApiKey, transformed)
             ELSE blockData

\* traverseAndUpdateNestedBlocks (pathIndex is 1-based here) with its helper
\* processBlocksArray; ctx carries what updateBlockFn closes over.
RECURSIVE traverseAndUpdateNestedBlocks(_, _, _, _), processBlocksArray(_, _, _, _)
processBlocksArray(blocks, path, pathIndex, ctx) ==
    IF blocks = <<>> THEN [updated |-> FALSE, newBlocks |-> <<>>]
    ELSE LET block == Head(blocks)
             rest == processBlocksArray(Tail(blocks), path, pathIndex, ctx)
             isLastStep == pathIndex = Len(path)
             matches == getBlockTypeId(block) = path[pathIndex].expectedBlockTypeId
             deeper ==
                 traverseAndUpdateNestedBlocks(
                     getNestedFieldValueFromBlock(block, path[pathIndex + 1].fieldApiKey),
                     path, pathIndex + 1, ctx)
         IN  IF ~matches
             THEN [updated |-> rest.updated, newBlocks |-> <<block>> \o rest.newBlocks]
             ELSE IF isLastStep
             THEN [updated |-> TRUE,
                   newBlocks |-> <<UpdateParentBlock(block, ctx.fieldApiKey, ctx.mapping,
                                                     ctx.partial)>> \o rest.newBlocks]
             ELSE IF path[pathIndex + 1].fieldApiKey \in DOMAIN block.attributes
                     /\ deeper.updated
             THEN [updated |-> TRUE,
                   newBlocks |-> <<setNestedFieldValueInBlock(
                                       block, path[pathIndex + 1].fieldApiKey,
                                       deeper.newValue)>> \o rest.newBlocks]
             ELSE [updated |-> rest.updated, newBlocks |-> <<block>> \o rest.newBlocks]

traverseAndUpdateNestedBlocks(fieldValue, path, pathIndex, ctx) ==
    IF pathIndex > Len(path) \/ IsFalsy(fieldValue)
    THEN [updated |-> FALSE, newValue |-> fieldValue]
    ELSE LET currentStep == path[pathIndex]
             Result(value) ==
                 processBlocksArray(extractBlocksFromValue(value, currentStep.fieldType),
                                    path, pathIndex, ctx)
         IN  IF currentStep.localized /\ IsLocaleHash(fieldValue)
             THEN [updated |-> \E l \in DOMAIN fieldValue.v : Result(fieldValue.v[l]).updated,
                   newValue |-> LocalizedValue(
                       [l \in DOMAIN fieldValue.v |->
                           IF Result(fieldValue.v[l]).updated
                           THEN RebuildValue(fieldValue.v[l], currentStep.fieldType,
                                             Result(fieldValue.v[l]).newBlocks)
                           ELSE fieldValue.v[l]])]
             ELSE IF Result(fieldValue).updated
             THEN [updated |-> TRUE,
                   newValue |-> RebuildValue(fieldValue, currentStep.fieldType,
                                             Result(fieldValue).newBlocks)]
             ELSE [updated |-> FALSE, newValue |-> fieldValue]

extractLinksFromNothing(value, targetBlockId, mapping, isSingleValue) ==
    IF isSingleValue THEN NullValue ELSE LinkArray(<<>>)

\* extractLinksFromValue
extractLinksFromValue(value, targetBlockId, mapping, isSingleValue) ==
    LET Pack(linkIds) == IF isSingleValue
                         THEN (IF linkIds = <<>> THEN NullValue ELSE SingleLink(linkIds[1]))
                         ELSE LinkArray(linkIds)
        Converted(b) == /\ getBlockTypeId(b) = targetBlockId
                        /\ getBlockId(b) # ""
                        /\ getBlockId(b) \in DOMAIN mapping
    IN  IF IsFalsy(value) THEN Pack(<<>>)
        ELSE IF isStructuredTextValue(value)
        THEN Pack(extractLinksFromStructuredText(value, targetBlockId, mapping))
        ELSE IF isSingleValue /\ value.k = "block"
        THEN (IF Converted(value.b) THEN SingleLink(mapping[getBlockId(value.b)])
              ELSE NullValue)
        ELSE IF value.k # "list" THEN Pack(<<>>)
        ELSE LET hits == SelectSeq(value.items, Converted)
             IN  Pack([i \in 1..Len(hits) |-> mapping[getBlockId(hits[i])]])

-----------------------------------------------------------------------------
(* Per-record updates of the data migrations                               *)

\* nestedPaths.find(...): index of the first path that ends in the field, 0
\* for undefined.
findNestedPathForField(paths, mcField) ==
    LET hits == {i \in 1..Len(paths) :
                    /\ paths[i].path[Len(paths[i].path)].fieldApiKey = mcField.apiKey
                    /\ paths[i].fieldInfo.parentModelId = mcField.parentModelId}
    IN  IF hits = {} THEN 0 ELSE CHOOSE i \in hits : \A j \in hits : i <= j

\* The loop body continues without a request.
NoUpdate == [needed |-> FALSE, updates |-> <<>>, localizedKeys |-> {}]

\* One request on one key.
UpdateOf(apiKey, value, isLocalized) ==
    [needed |-> TRUE, updates |-> (apiKey :> value),
     localizedKeys |-> IF isLocalized THEN {apiKey} ELSE {}]

\* Loop body of migrateStructuredTextFieldData (partial = FALSE) and of
\* migrateStructuredTextFieldDataPartial (partial = TRUE) for one record.
StructuredTextFieldUpdate(record, fieldApiKey, isLocalized, mapping, partial) ==
    LET fieldValue == FieldValueOf(record.f, fieldApiKey)
        Transform(v) ==
            IF partial THEN addInlineItemsAlongsideBlocks(v, TargetBlock, mapping)
            ELSE transformDastBlocksToLinks(v, TargetBlock, mapping)
        Changed(v) == isStructuredTextValue(v) /\ ~IsFalsy(Transform(v))
    IN  IF IsFalsy(fieldValue) THEN NoUpdate
        ELSE IF isLocalized /\ IsLocaleHash(fieldValue)
        THEN IF \E l \in LocaleSet \cap DOMAIN fieldValue.v : Changed(fieldValue.v[l])
             THEN UpdateOf(fieldApiKey,
                      LocalizedValue(
                          [l \in LocaleSet |->
                              IF l \notin DOMAIN fieldValue.v THEN NullValue
                              ELSE IF Changed(fieldValue.v[l])
                                   THEN Transform(fieldValue.v[l])
                                   ELSE fieldValue.v[l]]),
                      TRUE)
             ELSE NoUpdate
        ELSE IF Changed(fieldValue)
        THEN UpdateOf(fieldApiKey, Transform(fieldValue), isLocalized)
        ELSE NoUpdate

\* Loop body of migrateNestedStructuredTextFieldData and of its partial
\* variant.  A field inside a block has a path of two steps or more, so the
\* path to the parent block is never empty.
NestedStructuredTextFieldUpdate(record, nestedPath, fieldApiKey, mapping, partial) ==
    LET rootFieldApiKey == nestedPath.path[1].fieldApiKey
        rootFieldValue == FieldValueOf(record.f, rootFieldApiKey)
        pathToParentBlock == SubSeq(nestedPath.path, 1, Len(nestedPath.path) - 1)
        result == traverseAndUpdateNestedBlocks(
                      rootFieldValue, pathToParentBlock, 1,
                      [fieldApiKey |-> fieldApiKey, mapping |-> mapping,
                       partial |-> partial])
    IN  IF IsFalsy(rootFieldValue) THEN NoUpdate
        ELSE IF result.updated
        THEN UpdateOf(rootFieldApiKey, result.newValue, nestedPath.path[1].localized)
        ELSE NoUpdate

\* Loop body of migrateFieldData: the new field gets the links of the old one,
\* locale by locale for the locales the old value has.
FieldDataUpdate(record, oldFieldApiKey, newFieldApiKey, isLocalized, mapping, isSingleValue) ==
    LET oldValue == FieldValueOf(record.f, oldFieldApiKey)
    IN  IF IsFalsy(oldValue) THEN NoUpdate
        ELSE IF isLocalized /\ IsLocaleHash(oldValue)
        THEN UpdateOf(newFieldApiKey,
                 LocalizedValue(
                     [l \in DOMAIN oldValue.v |->
                         extractLinksFromValue(oldValue.v[l], TargetBlock, mapping,
                                               isSingleValue)]),
                 TRUE)
        ELSE UpdateOf(newFieldApiKey,
                 extractLinksFromValue(oldValue, TargetBlock, mapping, isSingleValue),
                 isLocalized)

\* existingLinks of migrateFieldDataAppend: the ids of the raw value when it is
\* an array.
ExistingLinks(rawExistingLinks) ==
    IF rawExistingLinks.k = "links" THEN rawExistingLinks.ids ELSE <<>>

CombineLinksOverwrite(existingLinks, newLinks) == newLinks

\* combinedLinks: the existing links, then the new ones not yet included.
RECURSIVE CombineLinks(_, _)
CombineLinks(existingLinks, newLinks) ==
    IF newLinks = <<>> THEN existingLinks
    ELSE IF \E i \in 1..Len(existingLinks) : existingLinks[i] = Head(newLinks)
         THEN CombineLinks(existingLinks, Tail(newLinks))
         ELSE CombineLinks(Append(existingLinks, Head(newLinks)), Tail(newLinks))

\* Loop body of migrateFieldDataAppend: the links field gets its own links
\* and the new ones, for the locales of either value.
FieldDataAppendUpdate(record, oldFieldApiKey, linksFieldApiKey, isLocalized, mapping) ==
    LET oldValue == FieldValueOf(record.f, oldFieldApiKey)
        existingLinksValue == FieldValueOf(record.f, linksFieldApiKey)
        NewLinksOf(v) ==
            IF IsFalsy(v) THEN <<>>
            ELSE ExistingLinks(extractLinksFromValue(v, TargetBlock, mapping, FALSE))
        existingLocalized ==
            IF IsFalsy(existingLinksValue) THEN <<>> ELSE existingLinksValue.v
    IN  IF IsFalsy(oldValue) THEN NoUpdate
        ELSE IF isLocalized /\ IsLocaleHash(oldValue)
        THEN UpdateOf(linksFieldApiKey,
                 LocalizedValue(
                     [l \in DOMAIN oldValue.v \cup DOMAIN existingLocalized |->
                         LinkArray(CombineLinks(
                             ExistingLinks(FieldValueOf(existingLocalized, l)),
                             NewLinksOf(FieldValueOf(oldValue.v, l))))]),
                 TRUE)
        ELSE UpdateOf(linksFieldApiKey,
                 LinkArray(CombineLinks(ExistingLinks(existingLinksValue),
                                        NewLinksOf(oldValue))),
                 isLocalized)

\* updateBlockFn of migrateNestedBlockFieldDataAppend: the parent block gets,
\* in its links field, its own links and the new ones.
AppendInParentBlock(blockData, oldFieldApiKey, linksFieldApiKey, mapping) ==
    LET oldValue == getNestedFieldValueFromBlock(blockData, oldFieldApiKey)
        existingLinksValue == getNestedFieldValueFromBlock(blockData, linksFieldApiKey)
        newLinks == ExistingLinks(extractLinksFromValue(oldValue, TargetBlock, mapping, FALSE))
    IN  IF IsFalsy(oldValue) THEN blockData
        ELSE setNestedFieldValueInBlock(blockData, linksFieldApiKey,
                 LinkArray(CombineLinks(ExistingLinks(existingLinksValue), newLinks)))

\* traverseAndRemoveBlocks (pathIndex is 1-based here) with its helper.
RECURSIVE traverseAndRemoveBlocks(_, _, _, _), removeFromBlocksArray(_, _, _, _)
removeFromBlocksArray(blocks, path, pathIndex, targetBlockId) ==
    IF blocks = <<>> THEN [updated |-> FALSE, newBlocks |-> <<>>]
    ELSE LET block == Head(blocks)
             rest == removeFromBlocksArray(Tail(blocks), path, pathIndex, targetBlockId)
             isLastStep == pathIndex = Len(path)
             deeper ==
                 traverseAndRemoveBlocks(
                     getNestedFieldValueFromBlock(block, path[pathIndex + 1].fieldApiKey),
                     path, pathIndex + 1, targetBlockId)
         IN  IF isLastStep
             THEN IF getBlockTypeId(block) = targetBlockId
                  THEN [updated |-> TRUE, newBlocks |-> rest.newBlocks]
                  ELSE [updated |-> rest.updated,
                        newBlocks |-> <<block>> \o rest.newBlocks]
             ELSE IF getBlockTypeId(block) = path[pathIndex].expectedBlockTypeId
                     /\ path[pathIndex + 1].fieldApiKey \in DOMAIN block.attributes
                     /\ deeper.updated
             THEN [updated |-> TRUE,
                   newBlocks |-> <<setNestedFieldValueInBlock(
                                       block, path[pathIndex + 1].fieldApiKey,
                                       deeper.newValue)>> \o rest.newBlocks]
             ELSE [updated |-> rest.updated, newBlocks |-> <<block>> \o rest.newBlocks]

traverseAndRemoveBlocks(fieldValue, path, pathIndex, targetBlockId) ==
    IF pathIndex > Len(path) \/ IsFalsy(fieldValue)
    THEN [updated |-> FALSE, newValue |-> fieldValue]
    ELSE LET currentStep == path[pathIndex]
             Result(value) ==
                 removeFromBlocksArray(extractBlocksFromValue(value, currentStep.fieldType),
                                       path, pathIndex, targetBlockId)
         IN  IF currentStep.localized /\ IsLocaleHash(fieldValue)
             THEN [updated |-> \E l \in DOMAIN fieldValue.v : Result(fieldValue.v[l]).updated,
                   newValue |-> LocalizedValue(
                       [l \in DOMAIN fieldValue.v |->
                           IF Result(fieldValue.v[l]).updated
                           THEN RebuildValue(fieldValue.v[l], currentStep.fieldType,
                                             Result(fieldValue.v[l]).newBlocks)
                           ELSE fieldValue.v[l]])]
             ELSE IF Result(fieldValue).updated
             THEN [updated |-> TRUE,
                   newValue |-> RebuildValue(fieldValue, currentStep.fieldType,
                                             Result(fieldValue).newBlocks)]
             ELSE [updated |-> FALSE, newValue |-> fieldValue]

\* Loop body of cleanupNestedBlocksFromOriginalField for one record: every path
\* reads the record as listed, a later path overwrites the update of an earlier
\* one on the same root field.
RECURSIVE CleanupUpdates(_, _, _)
CleanupUpdates(record, paths, acc) ==
    IF paths = <<>> THEN acc
    ELSE LET path == Head(paths)
             rootFieldApiKey == path.path[1].fieldApiKey
             rootFieldValue == FieldValueOf(record.f, rootFieldApiKey)
             result == traverseAndRemoveBlocks(rootFieldValue, path.path, 1, TargetBlock)
         IN  IF ~IsFalsy(rootFieldValue) /\ result.updated
             THEN CleanupUpdates(record, Tail(paths),
                      [needed |-> TRUE,
                       updates |-> (rootFieldApiKey :> result.newValue) @@ acc.updates,
                       localizedKeys |->
                           IF path.path[1].localized
                           THEN acc.localizedKeys \cup {rootFieldApiKey}
                           ELSE acc.localizedKeys \ {rootFieldApiKey}])
             ELSE CleanupUpdates(record, Tail(paths), acc)

-----------------------------------------------------------------------------
(* convertModularContentToLinksField, one field at a time                  *)

FieldExists(id) == \E f \in FieldSet : f.id = id
FieldById(id) == CHOOSE f \in FieldSet : f.id = id

\* client.fields.update(id, ...)
UpdateField(id, new) ==
    [i \in 1..Len(fields) |-> IF fields[i].id = id THEN new ELSE fields[i]]

\* client.fields.create with position: originalPosition + 1, on the fields fs
InsertFieldAfterIn(fs, id, new) ==
    LET i == CHOOSE k \in 1..Len(fs) : fs[k].id = id
    IN  SubSeq(fs, 1, i) \o <<new>> \o SubSeq(fs, i + 1, Len(fs))

InsertFieldAfter(id, new) == InsertFieldAfterIn(fields, id, new)

WithTempFields(mcField) == fields

\* "Clean up any existing TEMP fields only": the fields without a field
\* <key>_temp_links on the parent of mcField.
WithoutTempFields(mcField) ==
    SelectSeq(fields, LAMBDA f : ~(/\ f.parent = mcField.parentModelId
                                   /\ f.apiKey = mcField.apiKey \o "_temp_links"))

\* existingLinksField: the field <key>_links on the parent of mcField
IsLinksFieldOf(f, mcField) ==
    f.parent = mcField.parentModelId /\ f.apiKey = mcField.apiKey \o "_links"

HasLinksField(mcField) == \E f \in FieldSet : IsLinksFieldOf(f, mcField)

\* mcField of the step 4 loop
CurrentMcField == modularContentFields[fieldIdx]

remainingBlockIds(mcField) == mcField.allowedBlockIds \ {TargetBlock}

\* convertModularContentToLinksField is at the given stage for the field of
\* the loop.
Converting(stage) ==
    /\ pc = "converting"
    /\ fieldIdx <= Len(modularContentFields)
    /\ conv.stage = stage

MappingDoneEarly == pc = "mapping" /\ mapper.state = "idle"

\* The step 3 loop has run to its end: every path has had its mapper call and
\* the call has returned.
MappingDone ==
    /\ pc = "mapping"
    /\ mapper.state = "idle"
    /\ pathIdx > Len(nestedPaths)

\* Step 4 begins.
BeginFieldConversions ==
    /\ MappingDone
    /\ pc' = "converting"
    /\ UNCHANGED <<schemaVars, analysisVars, mapVars, convVars, fullyReplace, newModel,
                   failures>>

\* convertModularContentToLinksField returns; the loop counts the field.
FinishField ==
    /\ fieldIdx' = fieldIdx + 1
    /\ convertedFieldsCount' = convertedFieldsCount + 1
    /\ conv' = ConvIdle

\* The records a data migration lists: those of the field's model, or of the
\* root model of the nested path found for a field inside a block (none when
\* no path is found).
ListingFor(mcField) ==
    LET np == findNestedPathForField(nestedPaths, mcField)
    IN  IF ~mcField.parentIsBlock THEN RecordsOfType(mcField.parentModelId)
        ELSE IF np = 0 THEN <<>>
        ELSE RecordsOfType(nestedPaths[np].rootModelId)

StartData(kind, target) ==
    conv' = [stage |-> "data", kind |-> kind, todo |-> ListingFor(CurrentMcField),
             visited |-> {}, model |-> CurrentMcField.parentModelId,
             path |-> IF CurrentMcField.parentIsBlock
                      THEN findNestedPathForField(nestedPaths, CurrentMcField) ELSE 0,
             target |-> target]

\* Phase 1 of handleStructuredTextFieldConversion: the new model joins the
\* allowed link types, the block types stay; then the data migration starts.
STPhase1 ==
    /\ Converting("none")
    /\ CurrentMcField.fieldType = "structured_text"
    /\ fields' = UpdateField(CurrentMcField.id,
                     [FieldById(CurrentMcField.id) EXCEPT !.links = @ \cup {newModel}])
    /\ StartData("st", CurrentMcField.apiKey)
    /\ UNCHANGED <<itemTypes, analysisVars, mapVars, records, fieldIdx,
                   convertedFieldsCount, lastWrite, pc, fullyReplace, newModel, failures>>

\* The request the running data migration makes for record r, if any.
RecordUpdate(r) ==
    IF conv.kind = "st"
    THEN IF CurrentMcField.parentIsBlock
         THEN NestedStructuredTextFieldUpdate(records[r], nestedPaths[conv.path],
                  CurrentMcField.apiKey, globalMapping, ~fullyReplace)
         ELSE StructuredTextFieldUpdate(records[r], CurrentMcField.apiKey,
                  CurrentMcField.localized, globalMapping, ~fullyReplace)
    ELSE IF conv.kind = "append"
    THEN FieldDataAppendUpdate(records[r], CurrentMcField.apiKey, conv.target,
             CurrentMcField.localized, globalMapping)
    ELSE FieldDataUpdate(records[r], CurrentMcField.apiKey, conv.target,
             CurrentMcField.localized, globalMapping,
             CurrentMcField.fieldType = "single_block")

\* The nested structured text migrations rethrow a failed update; the root
\* level ones and migrateFieldData swallow it.
Rethrows == conv.kind = "st" /\ CurrentMcField.parentIsBlock

\* client.items.update succeeded.
ApplyUpdate(r, u) ==
    /\ records' = [records EXCEPT ![r].f = u.updates @@ @]
    /\ lastWrite' = [rec |-> r, updates |-> u.updates, localizedKeys |-> u.localizedKeys]

\* One iteration of a data migration loop: the record is skipped or updated.
MigrateRecord ==
    /\ Converting("data")
    /\ conv.todo # <<>>
    /\ LET r == Head(conv.todo)
           u == RecordUpdate(r)
       IN  /\ IF u.needed THEN ApplyUpdate(r, u) ELSE UNCHANGED <<records, lastWrite>>
           /\ conv' = [conv EXCEPT !.todo = Tail(@), !.visited = @ \cup {r}]
    /\ UNCHANGED <<schemaVars, analysisVars, mapVars, fieldIdx, convertedFieldsCount,
                   pc, fullyReplace, newModel, failures>>

\* One iteration whose client.items.update fails.
UpdateFails ==
    /\ Converting("data")
    /\ conv.todo # <<>>
    /\ failures < MaxFailures
    /\ LET r == Head(conv.todo)
           u == RecordUpdate(r)
       IN  /\ u.needed
           /\ lastWrite' = [rec |-> r, updates |-> u.updates,
                            localizedKeys |-> u.localizedKeys]
           /\ IF Rethrows
              THEN pc' = "failed" /\ UNCHANGED conv
              ELSE /\ conv' = [conv EXCEPT !.todo = Tail(@), !.visited = @ \cup {r}]
                   /\ UNCHANGED pc
    /\ failures' = failures + 1
    /\ UNCHANGED <<schemaVars, analysisVars, mapVars, records, fieldIdx,
                   convertedFieldsCount, fullyReplace, newModel>>

Phase2CompleteEarly(c) == TRUE

\* The data migration loop has left its listing.
Phase2Complete(c) == c.todo = <<>>

\* Partial mode: handleStructuredTextFieldConversion returns after the data
\* migration.
STPartialDone ==
    /\ Converting("data")
    /\ conv.kind = "st"
    /\ ~fullyReplace
    /\ conv.todo = <<>>
    /\ FinishField
    /\ UNCHANGED <<schemaVars, analysisVars, mapVars, records, lastWrite, pc,
                   fullyReplace, newModel, failures>>

Phase3BlockTypesNone(remaining) == {}

\* item_types of structured_text_blocks in phase3Validators
Phase3BlockTypes(remaining) == remaining

\* Phase 3: the block validator is cut down to the remaining block types.
STPhase3 ==
    /\ Converting("data")
    /\ conv.kind = "st"
    /\ fullyReplace
    /\ Phase2Complete(conv)
    /\ fields' = UpdateField(CurrentMcField.id,
                     [FieldById(CurrentMcField.id) EXCEPT
                         !.blocks = Phase3BlockTypes(remainingBlockIds(CurrentMcField))])
    /\ FinishField
    /\ UNCHANGED <<itemTypes, analysisVars, mapVars, records, lastWrite, pc,
                   fullyReplace, newModel, failures>>

LinksFieldToNothing(mcField, apiKey, fieldType) ==
    [id |-> "l_" \o mcField.id, parent |-> mcField.parentModelId, apiKey |-> apiKey,
     fieldType |-> fieldType, localized |-> mcField.localized,
     blocks |-> {}, links |-> {}]

\* The links (or link) field created next to the original one.
LinksField(mcField, apiKey, fieldType) ==
    [id |-> "l_" \o mcField.id, parent |-> mcField.parentModelId, apiKey |-> apiKey,
     fieldType |-> fieldType, localized |-> mcField.localized,
     blocks |-> {}, links |-> {newModel}]

\* The branch of convertModularContentToLinksField that keeps the original
\* field: remainingBlockIds.length > 0 && !isSingleBlock
KeepsOriginal(mcField) ==
    remainingBlockIds(mcField) # {} /\ mcField.fieldType # "single_block"

\* The field keeps other block types and has no links field yet: create mode,
\* a links field <key>_links appears.
RTCreateLinksField ==
    /\ Converting("none")
    /\ CurrentMcField.fieldType # "structured_text"
    /\ KeepsOriginal(CurrentMcField)
    /\ ~HasLinksField(CurrentMcField)
    /\ fields' = InsertFieldAfterIn(WithoutTempFields(CurrentMcField), CurrentMcField.id,
                     LinksField(CurrentMcField, CurrentMcField.apiKey \o "_links", "links"))
    /\ StartData("links", CurrentMcField.apiKey \o "_links")
    /\ UNCHANGED <<itemTypes, analysisVars, mapVars, records, fieldIdx,
                   convertedFieldsCount, lastWrite, pc, fullyReplace, newModel, failures>>

\* "Update the original field to remove the converted block type"
RTUpdateValidators ==
    /\ Converting("data")
    /\ conv.kind = "links" \/ (conv.kind = "append" /\ KeepsOriginal(CurrentMcField))
    /\ conv.todo = <<>>
    /\ fields' = UpdateField(CurrentMcField.id,
                     [FieldById(CurrentMcField.id) EXCEPT
                         !.blocks = remainingBlockIds(CurrentMcField)])
    /\ FinishField
    /\ UNCHANGED <<itemTypes, analysisVars, mapVars, records, lastWrite, pc,
                   fullyReplace, newModel, failures>>

\* Full replacement, step 1: the temp field <key>_temp_links.
RTCreateTempField ==
    /\ Converting("none")
    /\ CurrentMcField.fieldType # "structured_text"
    /\ ~KeepsOriginal(CurrentMcField)
    /\ ~HasLinksField(CurrentMcField)
    /\ fields' = InsertFieldAfterIn(WithoutTempFields(CurrentMcField), CurrentMcField.id,
                     LinksField(CurrentMcField, CurrentMcField.apiKey \o "_temp_links",
                                IF CurrentMcField.fieldType = "single_block"
                                THEN "link" ELSE "links"))
    /\ StartData("temp", CurrentMcField.apiKey \o "_temp_links")
    /\ UNCHANGED <<itemTypes, analysisVars, mapVars, records, fieldIdx,
                   convertedFieldsCount, lastWrite, pc, fullyReplace, newModel, failures>>

\* Full replacement, step 3: the old field goes, and with it its values.
RTDestroyOriginal ==
    /\ Converting("data")
    /\ conv.kind = "temp"
    /\ conv.todo = <<>>
    /\ fields' = SelectSeq(fields, LAMBDA f : f.id # CurrentMcField.id)
    /\ records' = [r \in DOMAIN records |->
                     IF records[r].type = CurrentMcField.parentModelId
                     THEN [records[r] EXCEPT !.f =
                              [k \in DOMAIN records[r].f \ {CurrentMcField.apiKey} |->
                                  records[r].f[k]]]
                     ELSE records[r]]
    /\ conv' = [conv EXCEPT !.stage = "destroyed"]
    /\ UNCHANGED <<itemTypes, analysisVars, mapVars, fieldIdx, convertedFieldsCount,
                   lastWrite, pc, fullyReplace, newModel, failures>>

\* Full replacement, step 4: the temp field takes the original api key.
RTRenameTemp ==
    /\ Converting("destroyed")
    /\ fields' = [i \in 1..Len(fields) |->
                     IF fields[i].parent = CurrentMcField.parentModelId
                        /\ fields[i].apiKey = conv.target
                     THEN [fields[i] EXCEPT !.apiKey = CurrentMcField.apiKey]
                     ELSE fields[i]]
    /\ records' = [r \in DOMAIN records |->
                     IF records[r].type = CurrentMcField.parentModelId
                        /\ conv.target \in DOMAIN records[r].f
                     THEN [records[r] EXCEPT !.f =
                              [k \in (DOMAIN records[r].f \ {conv.target})
                                         \cup {CurrentMcField.apiKey} |->
                                  IF k = CurrentMcField.apiKey
                                  THEN records[r].f[conv.target]
                                  ELSE records[r].f[k]]]
                     ELSE records[r]]
    /\ FinishField
    /\ UNCHANGED <<itemTypes, analysisVars, mapVars, lastWrite, pc, fullyReplace,
                   newModel, failures>>

ExtendedItemTypesSame(currentItemTypes, newModelId) == currentItemTypes

\* updatedItemTypes of the append mode
ExtendedItemTypes(currentItemTypes, newModelId) == currentItemTypes \cup {newModelId}

\* Append mode (either branch): a links field <key>_links exists from an
\* earlier conversion; the new model joins its validator, then the data is
\* appended.
RTAppendToLinksField ==
    /\ Converting("none")
    /\ CurrentMcField.fieldType # "structured_text"
    /\ HasLinksField(CurrentMcField)
    /\ fields' = [i \in 1..Len(WithoutTempFields(CurrentMcField)) |->
                     LET f == WithoutTempFields(CurrentMcField)[i]
                     IN  IF IsLinksFieldOf(f, CurrentMcField)
                         THEN [f EXCEPT !.links = ExtendedItemTypes(@, newModel)]
                         ELSE f]
    /\ StartData("append", CurrentMcField.apiKey \o "_links")
    /\ UNCHANGED <<itemTypes, analysisVars, mapVars, records, fieldIdx,
                   convertedFieldsCount, lastWrite, pc, fullyReplace, newModel, failures>>

\* Append mode of the full replacement: the original field goes, the links
\* field moves to its position.
RTDestroyOriginalKeepLinks ==
    /\ Converting("data")
    /\ conv.kind = "append"
    /\ ~KeepsOriginal(CurrentMcField)
    /\ conv.todo = <<>>
    /\ LET existingLinksField == CHOOSE f \in FieldSet : IsLinksFieldOf(f, CurrentMcField)
           others == SelectSeq(fields, LAMBDA f : f.id # existingLinksField.id)
       IN  fields' = [i \in 1..Len(others) |->
                         IF others[i].id = CurrentMcField.id THEN existingLinksField
                         ELSE others[i]]
    /\ records' = [r \in DOMAIN records |->
                     IF records[r].type = CurrentMcField.parentModelId
                     THEN [records[r] EXCEPT !.f =
                              [k \in DOMAIN records[r].f \ {CurrentMcField.apiKey} |->
                                  records[r].f[k]]]
                     ELSE records[r]]
    /\ FinishField
    /\ UNCHANGED <<itemTypes, analysisVars, mapVars, lastWrite, pc, fullyReplace,
                   newModel, failures>>

-----------------------------------------------------------------------------
(* Steps 5 and 6 of convertBlockToModel                                    *)

\* The paths step 5 cleans: nested ones whose field keeps other block types.
CleanupPaths ==
    SelectSeq(nestedPaths,
              LAMBDA p : Len(p.path) > 1 /\ remainingBlockIds(p.fieldInfo) # {})

\* Keys of pathsByRootModel in insertion order, then the records each
\* cleanupNestedBlocksFromOriginalField call lists.
RECURSIVE RootModelsOf(_, _)
RootModelsOf(paths, seen) ==
    IF paths = <<>> THEN <<>>
    ELSE IF Head(paths).rootModelId \in seen THEN RootModelsOf(Tail(paths), seen)
    ELSE <<Head(paths).rootModelId>>
            \o RootModelsOf(Tail(paths), seen \cup {Head(paths).rootModelId})

RECURSIVE RecordsOfModels(_)
RecordsOfModels(models) ==
    IF models = <<>> THEN <<>>
    ELSE RecordsOfType(Head(models)) \o RecordsOfModels(Tail(models))

BeginCleanup ==
    /\ pc = "converting"
    /\ fieldIdx > Len(modularContentFields)
    /\ pc' = "cleanup"
    /\ conv' = [ConvIdle EXCEPT !.stage = "cleanup",
                    !.todo = RecordsOfModels(RootModelsOf(CleanupPaths, {}))]
    /\ UNCHANGED <<schemaVars, analysisVars, mapVars, records, fieldIdx,
                   convertedFieldsCount, lastWrite, fullyReplace, newModel, failures>>

\* The request cleanupNestedBlocksFromOriginalField makes for record r, if any.
CleanupUpdate(r) ==
    CleanupUpdates(records[r],
                   SelectSeq(CleanupPaths, LAMBDA p : p.rootModelId = records[r].type),
                   NoUpdate)

CleanupRecord ==
    /\ pc = "cleanup"
    /\ conv.todo # <<>>
    /\ LET r == Head(conv.todo)
           u == CleanupUpdate(r)
       IN  IF u.needed THEN ApplyUpdate(r, u) ELSE UNCHANGED <<records, lastWrite>>
    /\ conv' = [conv EXCEPT !.todo = Tail(@), !.visited = @ \cup {Head(conv.todo)}]
    /\ UNCHANGED <<schemaVars, analysisVars, mapVars, fieldIdx, convertedFieldsCount,
                   pc, fullyReplace, newModel, failures>>

\* A failed cleanup update is rethrown.
CleanupFails ==
    /\ pc = "cleanup"
    /\ conv.todo # <<>>
    /\ failures < MaxFailures
    /\ LET r == Head(conv.todo)
           u == CleanupUpdate(r)
       IN  /\ u.needed
           /\ lastWrite' = [rec |-> r, updates |-> u.updates,
                            localizedKeys |-> u.localizedKeys]
    /\ failures' = failures + 1
    /\ pc' = "failed"
    /\ UNCHANGED <<schemaVars, analysisVars, mapVars, records, fieldIdx, conv,
                   convertedFieldsCount, fullyReplace, newModel>>

\* Step 6: deleteOriginalBlock when fully replacing, then the success result.
Complete ==
    /\ pc = "cleanup"
    /\ conv.todo = <<>>
    /\ IF fullyReplace
       THEN /\ itemTypes' = SelectSeq(itemTypes, LAMBDA t : t.id # TargetBlock)
            /\ fields' = SelectSeq(fields, LAMBDA f : f.parent # TargetBlock)
       ELSE UNCHANGED <<itemTypes, fields>>
    /\ pc' = "done"
    /\ conv' = ConvIdle
    /\ UNCHANGED <<analysisVars, mapVars, records, fieldIdx, convertedFieldsCount,
                   lastWrite, fullyReplace, newModel, failures>>

\* A schema request (model or field create, update, destroy) fails; the error
\* reaches the catch of convertBlockToModel.
SchemaCallFails ==
    /\ failures < MaxFailures
    /\ \/ pc = "analyzed"
       \/ Converting("none")
       \/ Converting("data") /\ conv.todo = <<>> /\ ~(conv.kind = "st" /\ ~fullyReplace)
       \/ Converting("destroyed")
       \/ pc = "cleanup" /\ conv.todo = <<>> /\ fullyReplace
    /\ failures' = failures + 1
    /\ pc' = "failed"
    /\ UNCHANGED <<schemaVars, analysisVars, mapVars, convVars, fullyReplace, newModel>>

-----------------------------------------------------------------------------
(* Specification of a conversion run                                       *)

Init ==
    /\ itemTypes = RunTypes
    /\ fields = RunFields
    /\ records = RunRecords
    /\ fullyReplace \in BOOLEAN
    /\ Idle

Next ==
    \/ AnalyzeBlock
    \/ CreateNewModel
    \/ StartPath
    \/ CreateOk
    \/ CreateFail
    \/ MapperAdvance
    \/ BeginFieldConversions
    \/ STPhase1
    \/ MigrateRecord
    \/ UpdateFails
    \/ STPartialDone
    \/ STPhase3
    \/ RTCreateLinksField
    \/ RTUpdateValidators
    \/ RTCreateTempField
    \/ RTDestroyOriginal
    \/ RTRenameTemp
    \/ BeginCleanup
    \/ CleanupRecord
    \/ CleanupFails
    \/ Complete
    \/ SchemaCallFails

Spec == Init /\ [][Next]_vars

-----------------------------------------------------------------------------
(* Properties of a conversion run                                          *)

FieldIn(fs, id) == CHOOSE f \in {fs[i] : i \in 1..Len(fs)} : f.id = id

RECURSIVE SetToSeq(_)
SetToSeq(S) ==
    IF S = {} THEN <<>>
    ELSE LET x == CHOOSE y \in S : TRUE IN <<x>> \o SetToSeq(S \ {x})

\* Every block object inside the values of a worklist, at any depth: blocks of
\* block arrays, single blocks, the items of block and inlineBlock nodes
\* anywhere in a document, and the blocks inside their attributes.
RECURSIVE BlocksWithin(_)
BlocksWithin(values) ==
    IF values = <<>> THEN <<>>
    ELSE LET v == Head(values)
             rest == Tail(values)
         IN  IF v.k = "loc"
             THEN BlocksWithin([i \in 1..Len(SetToSeq(DOMAIN v.v)) |->
                                   v.v[SetToSeq(DOMAIN v.v)[i]]] \o rest)
             ELSE IF v.k = "list"
             THEN BlocksWithin([i \in 1..Len(v.items) |-> SingleBlock(v.items[i])]
                               \o rest)
             ELSE IF v.k = "dast"
             THEN BlocksWithin([i \in 1..Len(BlockNodesInAll(v.children)) |->
                                   SingleBlock(BlockNodesInAll(v.children)[i].item)]
                               \o rest)
             ELSE IF v.k = "block"
             THEN <<v.b>>
                  \o BlocksWithin([i \in 1..Len(SetToSeq(DOMAIN v.b.attributes)) |->
                                      v.b.attributes[SetToSeq(DOMAIN v.b.attributes)[i]]]
                                  \o rest)
             ELSE BlocksWithin(rest)

\* The records of recs and every block inside them; a record counts as the
\* holder of its own fields.
Holders(recs) ==
    LET ids == SelectSeq(RecordIds, LAMBDA r : r \in DOMAIN recs)
    IN  BlocksWithin([i \in 1..Len(ids) |->
                         SingleBlock(BlockObject(ids[i], recs[ids[i]].type,
                                                 recs[ids[i]].f))])

\* The documents the structured text field m holds in recs, in every locale,
\* whether m sits on a root model or inside a block.
DocsOfField(m, recs) ==
    LET owners == SelectSeq(Holders(recs),
                            LAMBDA b : /\ b.itemType = m.parentModelId
                                       /\ m.apiKey \in DOMAIN b.attributes)
        ValuesOf(v) == IF v.k = "loc" THEN {v.v[l] : l \in DOMAIN v.v} ELSE {v}
    IN  {d \in UNION {ValuesOf(owners[i].attributes[m.apiKey]) : i \in 1..Len(owners)} :
            isStructuredTextValue(d)}

\* The document has a block or inlineBlock node of the target type.
HoldsTargetNode(d) == findBlockNodesOfType(d, TargetBlock) # <<>>

StructuredTextFields ==
    {i \in 1..Len(modularContentFields) :
        modularContentFields[i].fieldType = "structured_text"}

\* The step removes the target from the block types of mcField i.
RemovesTarget(i) ==
    /\ TargetBlock \in FieldIn(fields, modularContentFields[i].id).blocks
    /\ TargetBlock \notin FieldIn(fields', modularContentFields[i].id).blocks

\* C1: in replace mode, for every structured text field: a document of the
\* field is rewritten (or a rewrite is requested) only when the new model is
\* already among the field's link types and the target is still among its block
\* types, and the target leaves the block types only in the step that follows
\* the data migration of that field, after the migration has visited every
\* record of its listing.
PhaseOrder ==
    [][fullyReplace =>
          \A i \in StructuredTextFields :
              LET m == modularContentFields[i] IN
              /\ (\/ DocsOfField(m, records') # DocsOfField(m, records)
                  \/ (pc = "converting" /\ fieldIdx = i /\ lastWrite' # lastWrite))
                    => newModel \in FieldIn(fields, m.id).links
              /\ (pc = "converting" /\ fieldIdx = i /\ lastWrite' # lastWrite)
                    => TargetBlock \in FieldIn(fields, m.id).blocks
              /\ RemovesTarget(i)
                    => /\ pc = "converting" /\ fieldIdx = i
                       /\ conv.stage = "data" /\ conv.todo = <<>>
                       /\ conv.visited = {ListingFor(m)[k] : k \in 1..Len(ListingFor(m))}
                       /\ newModel \in FieldIn(fields, m.id).links]_vars

\* A replace-mode run has taken a structured text field through its three
\* phases and rewritten documents of the field on the way.
ThreePhasesDone ==
    /\ fullyReplace
    /\ \E i \in StructuredTextFields :
          /\ TargetBlock \notin FieldIn(fields, modularContentFields[i].id).blocks
          /\ newModel \in FieldIn(fields, modularContentFields[i].id).links
          /\ DocsOfField(modularContentFields[i], records)
                # DocsOfField(modularContentFields[i], RunRecords)

\* C2: in replace mode, when Phase 3 removes the target from the block types
\* of a structured text field, no document of that field in any record, in any
\* locale, on a root model or inside a block, has a block or inlineBlock node
\* of the target type.
NoTargetNodeAtPhase3 ==
    [][fullyReplace =>
          \A i \in StructuredTextFields :
              RemovesTarget(i) =>
                  \A d \in DocsOfField(modularContentFields[i], records) :
                      ~HoldsTargetNode(d)]_vars

\* The fields that are not those of the new model.
ReferencingFields(fs) == SelectSeq(fs, LAMBDA f : f.parent # NewModelId)

\* C3: a step that changes a field of the project, rewrites a record or
\* requests a record update happens only when the new model exists and the
\* mapper call of every nested path has returned.
ConversionsAfterMapping ==
    [][(\/ ReferencingFields(fields') # ReferencingFields(fields)
        \/ records' # records
        \/ lastWrite' # lastWrite)
          => /\ newModel # ""
             /\ \E t \in 1..Len(itemTypes) : itemTypes[t].id = newModel
             /\ pathIdx > Len(nestedPaths)
             /\ mapper.state = "idle"
             /\ mapper.done = 1..Len(nestedPaths)]_vars

\* Field conversions are under way: records were created, a field has changed
\* and a record has been rewritten.
FieldConversionStarted ==
    /\ pc = "converting"
    /\ created # <<>>
    /\ ReferencingFields(fields) # RunFields
    /\ records # RunRecords

\* C6: a key of the mapping stays a key, with the same record id, for the rest
\* of the run.
MappingAppendOnly ==
    [][\A k \in DOMAIN globalMapping :
          k \in DOMAIN globalMapping' /\ globalMapping'[k] = globalMapping[k]]_vars

\* The created records of path p whose group key is that of the position.
RecordsAt(p, rootRecordId, pathIndices) ==
    {i \in 1..Len(created) :
        /\ created[i].path = p
        /\ created[i].key = PositionKey(rootRecordId, pathIndices)}

\* C7: on a path in a localized context no two created records share a group
\* key; the ids of all instances a created record stands for are keys of the
\* mapper's mapping with that record's id, and of the run's mapping once the
\* mapper has returned; and when the mapper has returned, every instance found
\* on the path, in whatever locale, belongs to exactly one record, the one of
\* its (root record, index trail) position.
GroupYieldsOneRecord ==
    /\ \A i \in 1..Len(created) :
          created[i].grouped =>
              /\ \A j \in 1..Len(created) :
                    (j # i /\ created[j].path = created[i].path)
                        => created[j].key # created[i].key
              /\ (mapper.path = created[i].path /\ mapper.state # "idle")
                    => \A id \in InstanceIds(created[i]) :
                          /\ id \in DOMAIN mapper.mapping
                          /\ mapper.mapping[id] = created[i].id
              /\ created[i].path \in mapper.done
                    => \A id \in InstanceIds(created[i]) :
                          /\ id \in DOMAIN globalMapping
                          /\ globalMapping[id] = created[i].id
    /\ pc = "mapping" =>
          \A p \in mapper.done :
              nestedPaths[p].isInLocalizedContext =>
                  LET instances == getAllBlockInstancesNested(nestedPaths[p], TargetBlock)
                  IN  \A n \in 1..Len(instances) :
                          LET at == RecordsAt(p, instances[n].rootRecordId,
                                              instances[n].pathIndices)
                          IN  /\ Cardinality(at) = 1
                              /\ \A i \in at :
                                    /\ instances[n].blockId \in InstanceIds(created[i])
                                    /\ globalMapping[instances[n].blockId] = created[i].id

\* A group with instances from two locales has its one record, and the mapper
\* of its path has returned.
GroupOfTwoLocalesMapped ==
    \E i \in 1..Len(created) :
        /\ created[i].grouped
        /\ Cardinality(InstanceIds(created[i])) >= 2
        /\ created[i].path \in mapper.done

\* C9: the value of every localized field in an update request has exactly the
\* project locales as its keys.
LocaleCompleteness ==
    \A k \in lastWrite.localizedKeys :
        /\ lastWrite.updates[k].k = "loc"
        /\ DOMAIN lastWrite.updates[k].v = LocaleSet

\* C10: as long as the original field of a conversion exists, its block
\* validator lists every allowed block type other than the target.
RemainingTypesKept ==
    \A i \in 1..Len(modularContentFields) :
        FieldExists(modularContentFields[i].id)
            => remainingBlockIds(modularContentFields[i])
                  \subseteq FieldById(modularContentFields[i].id).blocks

\* The validator of a field with other block types has been cut down to them.
ValidatorReduced ==
    \E i \in 1..Len(modularContentFields) :
        /\ FieldExists(modularContentFields[i].id)
        /\ remainingBlockIds(modularContentFields[i]) # {}
        /\ FieldById(modularContentFields[i].id).blocks
              = remainingBlockIds(modularContentFields[i])

-----------------------------------------------------------------------------
(* The structured text transforms on a family of documents: the data       *)
(* migration of one root-level structured text field meets one record.     *)

\* Root children per document.
MaxChildren == 2

\* The field of the family: not localized, two block types allowed.
DocField ==
    [id |-> "f_doc", parent |-> "R2", apiKey |-> "doc",
     fieldType |-> "structured_text", localized |-> FALSE,
     blocks |-> {"T", "O"}, links |-> {NewModelId, "X"}]

\* Entries of the blocks array, for the nodes that hold an id string.
ListedBlocks == <<TBlock("b2", "t2"), TBlock("b4", "t4"), OBlock("o2")>>

\* Root children of valid DAST: block nodes sit at the root only, inlineBlock
\* and inlineItem nodes inside paragraphs.
DocNodes ==
    {BlockNode(TBlock("b1", "t1")),
     BlockNode(ItemId("b2")),
     BlockNode(OBlock("o1")),
     BlockNode(ItemId("o2")),
     ParagraphNode(<<SpanNode, InlineBlockNode(TBlock("b3", "t3"))>>),
     BlockquoteNode(<<ParagraphNode(<<InlineBlockNode(ItemId("b4")), SpanNode>>)>>),
     ParagraphNode(<<SpanNode, InlineItemNode("x1")>>)}

\* A block instance occurs once in a document.
DocChildren ==
    UNION {{c \in [1..n -> DocNodes] : \A i, j \in 1..n : c[i] = c[j] => i = j}
             : n \in 1..MaxChildren}

\* The ids of the block and inlineBlock nodes below the children.
ReferencedIds(children) ==
    {getBlockNodeItemId(BlockNodesInAll(children)[i]) :
        i \in 1..Len(BlockNodesInAll(children))}

\* The blocks array lists the blocks the nodes name by id.
DocBlocks(children) ==
    SelectSeq(ListedBlocks, LAMBDA b : b.id \in ReferencedIds(children))

\* The links array: absent, one linked record (expanded by the nested read or
\* minimal), or a link to a record a block maps to.
DocLinks ==
    {<<>>,
     <<DastLinkRecord("x1", TRUE)>>,
     <<DastLinkRecord("x1", FALSE)>>,
     <<DastLinkRecord("x1", TRUE), DastLinkRecord("n1", TRUE)>>}

\* The mappings: any part of the target blocks has its record.
DocMapping == [b1 |-> "n1", b2 |-> "n2", b3 |-> "n3", b4 |-> "n4"]
DocMappings ==
    {[b \in D |-> DocMapping[b]] : D \in SUBSET DOMAIN DocMapping}

\* The data migration of handleStructuredTextFieldConversion is about to read
\* record d1.
InitDast ==
    /\ itemTypes = Append(RunTypes, [id |-> NewModelId, modular_block |-> FALSE])
    /\ fields = <<DocField>>
    /\ \E c \in DocChildren, l \in DocLinks :
          records = [r \in {"d1"} |->
                        [type |-> "R2",
                         f |-> [doc |-> StructuredTextValue(c, DocBlocks(c), l)]]]
    /\ fullyReplace \in BOOLEAN
    /\ pc = "converting"
    /\ modularContentFields = <<McFieldInfo(DocField)>>
    /\ nestedPaths = <<>>
    /\ search = NoSearch
    /\ screen = NoScreen
    /\ cache = NoCache
    /\ runs = <<>>
    /\ rename = NoRename
    /\ created = <<>>
    /\ newModel = NewModelId
    /\ globalMapping \in DocMappings
    /\ pathIdx = 1
    /\ mapper = MapperIdle
    /\ migratedRecordsCount = 0
    /\ fieldIdx = 1
    /\ conv = [stage |-> "data", kind |-> "st", todo |-> <<"d1">>, visited |-> {},
               model |-> "R2", path |-> 0, target |-> "doc"]
    /\ convertedFieldsCount = 0
    /\ lastWrite = NoWrite
    /\ failures = 0
    /\ calls = 0

NextDast == MigrateRecord

SpecDast == InitDast /\ [][NextDast]_vars

\* The document of record d1.
Doc(recs) == recs["d1"].f["doc"]

\* The loop body is at record d1.
AtDoc == conv.stage = "data" /\ conv.todo = <<"d1">>

\* Every node of the target type has its mapping entry.
AllMapped(d, mapping) ==
    \A i \in 1..Len(findBlockNodesOfType(d, TargetBlock)) :
        getBlockNodeItemId(findBlockNodesOfType(d, TargetBlock)[i]) \in DOMAIN mapping

\* A node of the target type, by the document it belongs to.
IsTargetNode(node, d) ==
    /\ node.type \in {"block", "inlineBlock"}
    /\ blockTypeId(node, d.blocks) = TargetBlock

\* new stands where old stood: a target node has become the inlineItem of its
\* record (inside a fresh paragraph at root level), any other node is the same
\* but for what happened below it.
RECURSIVE ReplacedAt(_, _, _, _, _)
ReplacedAt(old, new, d, mapping, atRoot) ==
    IF IsTargetNode(old, d)
    THEN LET linked == InlineItemNode(mapping[getBlockNodeItemId(old)])
         IN  IF atRoot
             THEN /\ new.type = "paragraph"
                  /\ \E i \in 1..Len(new.children) : new.children[i] = linked
             ELSE new = linked
    ELSE /\ new.type = old.type
         /\ new.item = old.item
         /\ Len(new.children) = Len(old.children)
         /\ \A i \in 1..Len(old.children) :
               ReplacedAt(old.children[i], new.children[i], d, mapping, FALSE)

\* C11: a replace-mode transform of a document whose target nodes all have a
\* mapping entry leaves no block or inlineBlock node of the target type; each
\* one has become, at its position, the inlineItem of mapping[id]; the blocks
\* array has lost the entries of the replaced instances and nothing else; the
\* other nodes and block entries are as they were.
ReplaceModeReplacesAll ==
    [][ (AtDoc /\ fullyReplace /\ AllMapped(Doc(records), globalMapping)
            /\ findBlockNodesOfType(Doc(records), TargetBlock) # <<>>)
        => LET d == Doc(records)
               e == Doc(records')
               gone == {getBlockNodeItemId(findBlockNodesOfType(d, TargetBlock)[i]) :
                           i \in 1..Len(findBlockNodesOfType(d, TargetBlock))}
           IN  /\ lastWrite'.rec = "d1"
               /\ lastWrite'.updates["doc"] = e
               /\ findBlockNodesOfType(e, TargetBlock) = <<>>
               /\ Len(e.children) = Len(d.children)
               /\ \A i \in 1..Len(d.children) :
                     ReplacedAt(d.children[i], e.children[i], d, globalMapping, TRUE)
               /\ e.blocks = SelectSeq(d.blocks, LAMBDA b : b.id \notin gone) ]_vars

\* A document with target nodes of both kinds and a node of another type has
\* been rewritten in replace mode.
ReplaceModeReplaced ==
    /\ fullyReplace
    /\ lastWrite.rec = "d1"
    /\ conv.visited = {"d1"}
    /\ globalMapping = DocMapping
    /\ Doc(records).children = <<WrappedInlineItem("n2"), BlockNode(ItemId("o2"))>>
    /\ Doc(records).blocks = <<OBlock("o2")>>

\* The request of the loop body for record d1 has been made in this step.
Written(d) == AtDoc /\ lastWrite'.rec = "d1" /\ lastWrite'.updates["doc"] = d

\* A root-level block node of the target type with a mapping entry.
IsMappedRootBlock(node, d, mapping) ==
    /\ node.type = "block"
    /\ IsTargetNode(node, d)
    /\ getBlockNodeItemId(node) \in DOMAIN mapping

\* The root children new come from the root children old, and whatever took
\* the place of a mapped root-level block (replace mode) or was put after it
\* (augment mode) is a paragraph of an empty span and the inlineItem.
RECURSIVE RootLevelWrapped(_, _, _, _, _)
RootLevelWrapped(old, new, d, mapping, augment) ==
    IF old = <<>> THEN new = <<>>
    ELSE LET wrapped ==
                 ParagraphNode(<<SpanNode,
                                 InlineItemNode(mapping[getBlockNodeItemId(Head(old))])>>)
         IN  IF IsMappedRootBlock(Head(old), d, mapping) /\ augment
             THEN /\ Len(new) >= 2
                  /\ new[1].type = "block"
                  /\ new[2] = wrapped
                  /\ RootLevelWrapped(Tail(old), Tail(Tail(new)), d, mapping, augment)
             ELSE IF IsMappedRootBlock(Head(old), d, mapping)
             THEN /\ new # <<>>
                  /\ new[1] = wrapped
                  /\ RootLevelWrapped(Tail(old), Tail(new), d, mapping, augment)
             ELSE /\ new # <<>>
                  /\ new[1].type = Head(old).type
                  /\ RootLevelWrapped(Tail(old), Tail(new), d, mapping, augment)

\* C12: the document either transform mode writes back, for a document without
\* an inlineItem at root level, has no inlineItem as a direct child of the
\* root; every replacement or insertion at root level is a new paragraph whose
\* children are an empty span followed by the inlineItem.
NoInlineItemAtRoot ==
    [][ \A e \in {lastWrite'.updates[k] : k \in DOMAIN lastWrite'.updates} :
          Written(e)
          => /\ \A i \in 1..Len(e.children) : e.children[i].type # "inlineItem"
             /\ RootLevelWrapped(Doc(records).children, e.children, Doc(records),
                                 globalMapping, ~fullyReplace) ]_vars

\* Replace mode has rewritten a root-level block and an inlineBlock inside a
\* paragraph.
RootBlockWrapped ==
    /\ fullyReplace
    /\ lastWrite.rec = "d1"
    /\ Doc(records).children =
          <<WrappedInlineItem("n1"), ParagraphNode(<<SpanNode, InlineItemNode("n3")>>)>>

\* C13: for a document whose root has a single block child of the target type
\* with a mapping entry, replace mode writes a document that holds at that
\* position a paragraph with exactly one inlineItem, the one of the mapped id;
\* its blocks array does not hold the instance and its links array holds
\* exactly one entry with the mapped id.
SingleBlockRoundTrip ==
    [][ (/\ AtDoc
         /\ fullyReplace
         /\ Len(Doc(records).children) = 1
         /\ IsMappedRootBlock(Doc(records).children[1], Doc(records), globalMapping))
        => LET d == Doc(records)
               e == Doc(records')
               itemId == getBlockNodeItemId(d.children[1])
               inlineItems == SelectSeq(e.children[1].children,
                                        LAMBDA n : n.type = "inlineItem")
           IN  /\ Written(e)
               /\ Len(e.children) = 1
               /\ e.children[1].type = "paragraph"
               /\ Len(inlineItems) = 1
               /\ inlineItems[1].item.id = globalMapping[itemId]
               /\ \A i \in 1..Len(e.blocks) : e.blocks[i].id # itemId
               /\ Cardinality({i \in 1..Len(e.links) :
                                  e.links[i].id = globalMapping[itemId]}) = 1 ]_vars

\* The single root-level block of a document that already links its record has
\* been replaced.
SingleBlockReplaced ==
    /\ fullyReplace
    /\ lastWrite.rec = "d1"
    /\ Doc(records) =
          StructuredTextValue(<<WrappedInlineItem("n1")>>, <<>>,
                              <<DastLinkRecord("x1", FALSE), DastLinkRecord("n1", FALSE)>>)

\* The number of mapped root-level target blocks among the first n children.
MappedRootBlocksBefore(d, mapping, n) ==
    Cardinality({j \in 1..n : IsMappedRootBlock(d.children[j], d, mapping)})

\* C14: for a document with a root-level block node of the target type that
\* has a mapping entry, augment mode writes a document in which that node is
\* still present at its position and is immediately followed by the inserted
\* paragraph with the inlineItem of the mapped id; the links array holds the
\* mapped id and the blocks array still holds the entry of the instance.
AugmentRoundTrip ==
    [][ \A i \in 1..Len(Doc(records).children) :
          (/\ AtDoc
           /\ ~fullyReplace
           /\ IsMappedRootBlock(Doc(records).children[i], Doc(records), globalMapping))
          => LET d == Doc(records)
                 e == Doc(records')
                 itemId == getBlockNodeItemId(d.children[i])
                 j == i + MappedRootBlocksBefore(d, globalMapping, i - 1)
             IN  /\ Written(e)
                 /\ Len(e.children) > j
                 /\ e.children[j].type = "block"
                 /\ getBlockNodeItemId(e.children[j]) = itemId
                 /\ e.children[j + 1].type = "paragraph"
                 /\ \E k \in 1..Len(e.children[j + 1].children) :
                       e.children[j + 1].children[k] = InlineItemNode(globalMapping[itemId])
                 /\ \E k \in 1..Len(e.links) : e.links[k].id = globalMapping[itemId]
                 /\ \A k \in 1..Len(d.blocks) :
                       d.blocks[k].id = itemId
                       => \E l \in 1..Len(e.blocks) : e.blocks[l] = d.blocks[k] ]_vars

\* Augment mode has put the paragraph after a root-level block that the blocks
\* array lists.
AugmentInserted ==
    /\ ~fullyReplace
    /\ lastWrite.rec = "d1"
    /\ Doc(records) =
          StructuredTextValue(<<BlockNode(ItemId("b2")), WrappedInlineItem("n2")>>,
                              <<TBlock("b2", "t2")>>,
                              <<DastLinkRecord("n2", FALSE)>>)

\* C15: every document either transform mode returns, that is every document
\* written back, has its links array in minimal { id } shape: no entry carries
\* the record data a nested read inlined.
WrittenLinksMinimal ==
    [][ \A e \in {lastWrite'.updates[k] : k \in DOMAIN lastWrite'.updates} :
          Written(e) => \A k \in 1..Len(e.links) : ~e.links[k].expanded ]_vars

\* The document has no block or inlineBlock node of the target type.
NoTargetNode(d) ==
    \A i \in 1..Len(BlockNodesInAll(d.children)) :
        ~IsTargetNode(BlockNodesInAll(d.children)[i], d)

-----------------------------------------------------------------------------
(* convertModularContentToLinksField on a family of container fields of a  *)
(* root model: list-shaped or single, localized or not, with or without    *)
(* other block types, a links field of an earlier conversion (to model M),  *)
(* a temp field left by an interrupted run.                                 *)

PlainField(id, apiKey) ==
    [id |-> id, parent |-> "R2", apiKey |-> apiKey, fieldType |-> "string",
     localized |-> FALSE, blocks |-> {}, links |-> {}]

ContainerField(fieldType, localized, allowed) ==
    [id |-> "f_gal", parent |-> "R2", apiKey |-> "gallery", fieldType |-> fieldType,
     localized |-> localized, blocks |-> allowed, links |-> {}]

\* The links field an earlier conversion of another block type has created.
EarlierLinksField(c) ==
    [id |-> "f_gal_links", parent |-> "R2", apiKey |-> "gallery_links",
     fieldType |-> "links", localized |-> c.localized, blocks |-> {}, links |-> {"M"}]

\* The temp field of a run that stopped before its data migration.
StaleTempField(c) ==
    [id |-> "f_stale", parent |-> "R2", apiKey |-> "gallery_temp_links",
     fieldType |-> IF c.fieldType = "single_block" THEN "link" ELSE "links",
     localized |-> c.localized, blocks |-> {}, links |-> {NewModelId}]

ContainerFields(c, hasLinks, hasTemp) ==
    <<PlainField("f_name", "name"), c>>
        \o (IF hasTemp THEN <<StaleTempField(c)>> ELSE <<>>)
        \o (IF hasLinks THEN <<EarlierLinksField(c)>> ELSE <<>>)
        \o <<PlainField("f_foot", "foot")>>

\* The blocks of another type are there when the field allows them.
OthersIn(c, blocks) == IF "O" \in c.blocks THEN blocks ELSE <<>>

\* The value of the container field in r1 and r2, per locale.
ContainerValue(c, r, locale) ==
    IF c.fieldType = "single_block"
    THEN IF r = "r1"
         THEN SingleBlock(TBlock(IF locale = "it" THEN "b2" ELSE "b1", "t"))
         ELSE IF "O" \in c.blocks THEN SingleBlock(OBlock("o2")) ELSE NullValue
    ELSE IF r = "r1"
         THEN IF locale = "en"
              THEN BlockArray(<<TBlock("b1", "t")>> \o OthersIn(c, <<OBlock("o1")>>))
              ELSE IF locale = "it" THEN BlockArray(<<TBlock("b2", "t")>>)
              ELSE BlockArray(<<TBlock("b1", "t")>> \o OthersIn(c, <<OBlock("o1")>>)
                                  \o <<TBlock("b2", "t")>>)
         ELSE BlockArray(OthersIn(c, <<OBlock("o2")>>))

\* r1 has both locales, r2 only "en"; r3 has no value in the container field.
ContainerRecordValue(c, r) ==
    IF r = "r3" THEN NullValue
    ELSE IF c.localized
    THEN LocalizedValue([l \in (IF r = "r1" THEN {"en", "it"} ELSE {"en"}) |->
                            ContainerValue(c, r, l)])
    ELSE ContainerValue(c, r, NoLocale)

\* The links the earlier conversion has left: r1 already links the record of
\* b2, r2 has links in a locale its container value lacks (none when the field
\* is not localized), r3 has links and no blocks.
EarlierLinksValue(c, r) ==
    IF c.localized
    THEN IF r = "r1"
         THEN LocalizedValue([en |-> LinkArray(<<"m1">>), it |-> LinkArray(<<"m2", "n2">>)])
         ELSE IF r = "r2" THEN LocalizedValue([it |-> LinkArray(<<"m3">>)])
         ELSE LocalizedValue([en |-> LinkArray(<<"m4">>)])
    ELSE IF r = "r1" THEN LinkArray(<<"m1", "n2">>)
         ELSE IF r = "r2" THEN NullValue
         ELSE LinkArray(<<"m4">>)

ContainerRecords(c, hasLinks) ==
    [r \in {"r1", "r2", "r3"} |->
        [type |-> "R2",
         f |-> IF hasLinks
               THEN [gallery |-> ContainerRecordValue(c, r),
                     gallery_links |-> EarlierLinksValue(c, r)]
               ELSE [gallery |-> ContainerRecordValue(c, r)]]]

\* Step 4 of convertBlockToModel is about to convert the container field; the
\* records of the new model exist.
InitField ==
    /\ itemTypes = RunTypes \o <<[id |-> NewModelId, modular_block |-> FALSE],
                                 [id |-> "M", modular_block |-> FALSE]>>
    /\ \E fieldType \in {"rich_text", "single_block"}, localized \in BOOLEAN,
          allowed \in {{"T"}, {"T", "O"}}, hasLinks \in BOOLEAN, hasTemp \in BOOLEAN :
          LET c == ContainerField(fieldType, localized, allowed)
          IN  /\ hasLinks => fieldType = "rich_text"
              /\ fields = ContainerFields(c, hasLinks, hasTemp)
              /\ records = ContainerRecords(c, hasLinks)
              /\ modularContentFields = <<McFieldInfo(c)>>
    /\ fullyReplace \in BOOLEAN
    /\ pc = "converting"
    /\ nestedPaths = <<>>
    /\ search = NoSearch
    /\ screen = NoScreen
    /\ cache = NoCache
    /\ runs = <<>>
    /\ rename = NoRename
    /\ created = <<>>
    /\ newModel = NewModelId
    /\ globalMapping = [b1 |-> "n1", b2 |-> "n2"]
    /\ pathIdx = 1
    /\ mapper = MapperIdle
    /\ migratedRecordsCount = 0
    /\ fieldIdx = 1
    /\ conv = ConvIdle
    /\ convertedFieldsCount = 0
    /\ lastWrite = NoWrite
    /\ failures = 0
    /\ calls = 0

NextField ==
    \/ RTCreateLinksField
    \/ RTAppendToLinksField
    \/ MigrateRecord
    \/ UpdateFails
    \/ RTUpdateValidators
    \/ RTCreateTempField
    \/ RTDestroyOriginal
    \/ RTRenameTemp
    \/ RTDestroyOriginalKeepLinks
    \/ SchemaCallFails

SpecField == InitField /\ [][NextField]_vars

\* The fields of a model with an api key.
FieldsKeyed(fs, parent, apiKey) ==
    SelectSeq(fs, LAMBDA f : f.parent = parent /\ f.apiKey = apiKey)

\* The position of the field with an api key among the fields of its model, 0
\* when there is none.
PositionOf(fs, parent, apiKey) ==
    LET own == SelectSeq(fs, LAMBDA f : f.parent = parent)
        at == {i \in 1..Len(own) : own[i].apiKey = apiKey}
    IN  IF at = {} THEN 0 ELSE CHOOSE i \in at : \A j \in at : i <= j

\* The conversion of the i-th field has returned.
Converted(i) == i < fieldIdx

\* C17: a rich_text field that allows other block types besides the target and
\* had no links field yet has, once its conversion has returned, a links field
\* <key>_links next to it that points at the new model, and the field itself
\* still exists with the validator of its original block types minus the
\* target.
CompanionCreated ==
    \A i \in 1..Len(modularContentFields) :
        LET m == modularContentFields[i]
        IN  (/\ Converted(i)
             /\ m.fieldType = "rich_text"
             /\ m.allowedBlockIds \ {TargetBlock} # {}
             /\ ~FieldExists("f_gal_links"))
            => /\ \E f \in FieldSet :
                     /\ f.parent = m.parentModelId
                     /\ f.apiKey = m.apiKey \o "_links"
                     /\ f.fieldType = "links"
                     /\ f.links = {newModel}
               /\ \E f \in FieldSet :
                     /\ f.id = m.id
                     /\ f.apiKey = m.apiKey
                     /\ f.fieldType = "rich_text"
                     /\ f.blocks = m.allowedBlockIds \ {TargetBlock}

\* The conversion of a rich_text field with another block type has created the
\* links field and has written the links of r1.
CompanionCreatedReached ==
    /\ Converted(1)
    /\ modularContentFields[1].fieldType = "rich_text"
    /\ FieldExists("l_f_gal")
    /\ FieldById("l_f_gal").apiKey = "gallery_links"
    /\ FieldById("f_gal").blocks = {"O"}
    /\ "gallery_links" \in DOMAIN records["r1"].f

\* C18: a single_block field that allows other block types besides the target
\* has, once its conversion has returned, a link field that points at the new
\* model, and the field itself is still there, not destroyed, with the
\* validator of its block types minus the target.
SingleBlockOriginalKept ==
    \A i \in 1..Len(modularContentFields) :
        LET m == modularContentFields[i]
        IN  (/\ Converted(i)
             /\ m.fieldType = "single_block"
             /\ m.allowedBlockIds \ {TargetBlock} # {})
            => /\ \E f \in FieldSet :
                     /\ f.parent = m.parentModelId
                     /\ f.fieldType = "link"
                     /\ f.links = {newModel}
               /\ \E f \in FieldSet :
                     /\ f.id = m.id
                     /\ f.fieldType = "single_block"
                     /\ f.blocks = m.allowedBlockIds \ {TargetBlock}

\* The target is the only block type the container field allows and the model
\* has no links field of an earlier conversion.
SoleTarget(m) ==
    /\ m.fieldType \in {"rich_text", "single_block"}
    /\ m.allowedBlockIds = {TargetBlock}
    /\ ~HasLinksField(m)

TempKey(m) == m.apiKey \o "_temp_links"

HasField(fs, id) == \E k \in 1..Len(fs) : fs[k].id = id

\* The position the container field has in every project of the family.
OriginalPosition ==
    PositionOf(ContainerFields(ContainerField("rich_text", FALSE, {"T"}), FALSE, FALSE),
               "R2", "gallery")

\* The steps of the conversion of field m keep the order create temp field,
\* migrate data, delete original, rename temp field.
TempSequenceSteps(m) ==
    LET parent == m.parentModelId
        HasTemp(fs) == FieldsKeyed(fs, parent, TempKey(m)) # <<>>
    IN  /\ lastWrite' # lastWrite
           => /\ DOMAIN lastWrite'.updates = {TempKey(m)}
              /\ HasField(fields, "l_" \o m.id)
              /\ HasTemp(fields)
              /\ HasField(fields, m.id)
        /\ (HasField(fields, m.id) /\ ~HasField(fields', m.id))
           => /\ HasTemp(fields)
              /\ conv.stage = "data"
              /\ conv.todo = <<>>
              /\ conv.visited = {r \in DOMAIN records : records[r].type = parent}
              /\ PositionOf(fields', parent, TempKey(m)) = PositionOf(fields, parent, m.apiKey)
        /\ (HasTemp(fields) /\ ~HasTemp(fields'))
           => /\ ~HasField(fields, m.id)
              /\ PositionOf(fields', parent, m.apiKey) = PositionOf(fields, parent, TempKey(m))
        /\ (HasField(fields, m.id) /\ HasField(fields', m.id))
           => PositionOf(fields', parent, m.apiKey) = PositionOf(fields, parent, m.apiKey)

\* What the model of field m looks like when the conversion has returned.
TempSequenceResult(m) ==
    LET keyed == FieldsKeyed(fields, m.parentModelId, m.apiKey)
    IN  /\ Len(keyed) = 1
        /\ keyed[1].fieldType = (IF m.fieldType = "single_block" THEN "link" ELSE "links")
        /\ keyed[1].links = {newModel}
        /\ PositionOf(fields, m.parentModelId, m.apiKey) = OriginalPosition
        /\ FieldsKeyed(fields, m.parentModelId, TempKey(m)) = <<>>

\* C19: when the target is the only allowed type of a container field and no
\* links field exists, the conversion creates the temp field, migrates the
\* data into it, deletes the original field and renames the temp field, in
\* this order; when the conversion has returned, the model has one reference
\* field with the key and the position of the original field and no field with
\* the temp key.
TempSequence ==
    /\ [][ \A i \in 1..Len(modularContentFields) :
              (i = fieldIdx /\ pc = "converting" /\ SoleTarget(modularContentFields[i]))
              => TempSequenceSteps(modularContentFields[i]) ]_vars
    /\ [](\A i \in 1..Len(modularContentFields) :
              (Converted(i) /\ SoleTarget(modularContentFields[i]))
              => TempSequenceResult(modularContentFields[i]))

\* The temp field of a localized rich_text field has taken over key and data.
TempRenamed ==
    /\ Converted(1)
    /\ modularContentFields[1].allowedBlockIds = {TargetBlock}
    /\ modularContentFields[1].localized
    /\ ~FieldExists("f_gal")
    /\ FieldExists("l_f_gal")
    /\ FieldById("l_f_gal").apiKey = "gallery"
    /\ records["r1"].f["gallery"] =
          LocalizedValue([en |-> LinkArray(<<"n1">>), it |-> LinkArray(<<"n2">>)])

\* The ids a links value holds, none for a missing value.
IdsOf(value) == IF value.k = "links" THEN value.ids ELSE <<>>

\* The record ids of the blocks of the target type in a container value, in
\* order.
DerivedIds(value, mapping) ==
    LET blocks == IF value.k = "list" THEN value.items
                  ELSE IF value.k = "block" THEN <<value.b>> ELSE <<>>
        hits == SelectSeq(blocks, LAMBDA b : b.itemType = TargetBlock /\ b.id \in DOMAIN mapping)
    IN  [i \in 1..Len(hits) |-> mapping[hits[i].id]]

\* written is existing followed by the derived ids that existing lacks, each
\* once.
IsAppended(existing, derived, written) ==
    LET fresh == SelectSeq(derived, LAMBDA id : \A i \in 1..Len(existing) : existing[i] # id)
    IN  /\ written = existing \o fresh
        /\ \A i, j \in 1..Len(fresh) : fresh[i] = fresh[j] => i = j

\* The value of a locale (of the whole field when it is not localized).
AtLocale(value, locale) ==
    IF value.k = "loc" THEN FieldValueOf(value.v, locale) ELSE value

\* The locales a value has: its keys, or the one slot of a plain value.
SlotsOf(value) ==
    IF value.k = "loc" THEN DOMAIN value.v
    ELSE IF value.k = "null" THEN {} ELSE {NoLocale}

\* C20: when a links field <key>_links already exists the conversion never
\* overwrites its values: every request writes, for the record and for every
\* locale, the existing ids followed by the newly derived ids that were not
\* there, and keeps every locale the field had; the update of a parent block
\* that holds the same two values does the same; no step takes a type out of
\* the validator of the links field, and once the conversion has returned the
\* validator holds its previous types and the new model.
AppendKeepsExisting ==
    /\ [][ (pc = "converting" /\ conv.kind = "append" /\ lastWrite' # lastWrite)
           => LET r == lastWrite'.rec
                  existingValue == FieldValueOf(records[r].f, conv.target)
                  oldValue == FieldValueOf(records[r].f, CurrentMcField.apiKey)
                  written == lastWrite'.updates[conv.target]
              IN  /\ DOMAIN lastWrite'.updates = {conv.target}
                  /\ SlotsOf(existingValue) \subseteq SlotsOf(written)
                  /\ \A l \in SlotsOf(written) :
                        IsAppended(IdsOf(AtLocale(existingValue, l)),
                                   DerivedIds(AtLocale(oldValue, l), globalMapping),
                                   IdsOf(AtLocale(written, l))) ]_vars
    /\ [](\A r \in DOMAIN records :
             (/\ pc = "converting"
              /\ conv.kind = "append"
              /\ ~CurrentMcField.localized
              /\ r \notin conv.visited)
             => LET parentBlock == BlockObject("p", "P", records[r].f)
                    updatedBlock ==
                        AppendInParentBlock(parentBlock, CurrentMcField.apiKey,
                                            conv.target, globalMapping)
                    oldValue == FieldValueOf(records[r].f, CurrentMcField.apiKey)
                IN  IF IsFalsy(oldValue) THEN updatedBlock = parentBlock
                    ELSE /\ DOMAIN updatedBlock = DOMAIN parentBlock
                         /\ updatedBlock.attributes[CurrentMcField.apiKey] = oldValue
                         /\ IsAppended(
                               IdsOf(FieldValueOf(records[r].f, conv.target)),
                               DerivedIds(oldValue, globalMapping),
                               IdsOf(updatedBlock.attributes[conv.target])))
    /\ [][ \A k \in 1..Len(fields) :
              fields[k].id = "f_gal_links"
              => \A j \in 1..Len(fields') :
                    fields'[j].id = "f_gal_links"
                    => fields[k].links \subseteq fields'[j].links ]_vars
    /\ []((Converted(1) /\ FieldExists("f_gal_links"))
             => {"M", newModel} \subseteq FieldById("f_gal_links").links)

\* The links of r1, which held the record of b2 already, have been extended
\* by the record of b1 only.
AppendedToExisting ==
    /\ conv.kind = "append"
    /\ lastWrite.rec = "r1"
    /\ "r1" \in conv.visited
    /\ records["r1"].f["gallery_links"] = LinkArray(<<"m1", "n2", "n1">>)
    /\ FieldById("f_gal_links").links = {"M", newModel}

-----------------------------------------------------------------------------
(* The second conversion of a container field: the projects of the family    *)
(* with the links field gallery_links are what the conversion of another    *)
(* block type (to model M) has left, the run converts the target.           *)

\* The reference fields of the model of m: link and links fields.
ReferenceFields(m) ==
    SelectSeq(fields, LAMBDA f : f.parent = m.parentModelId
                                 /\ f.fieldType \in {"link", "links"})

\* The conversion of field m, the second one of the field, has returned.
SecondConversionDone(i) ==
    /\ Converted(i)
    /\ FieldExists("f_gal_links")

\* One reference field, and it lists the model of the earlier conversion and
\* the new model.
OneReferenceFieldForBoth(m) ==
    /\ Len(ReferenceFields(m)) = 1
    /\ ReferenceFields(m)[1].links = {"M", newModel}

\* The statement of C21 as it reads: after the second conversion the model has
\* one reference field listing both destination types, and the container field
\* is removed or is left with an empty set of allowed block types.
TwoConversionsRemovedOrEmpty ==
    \A i \in 1..Len(modularContentFields) :
        LET m == modularContentFields[i]
        IN  SecondConversionDone(i)
            => /\ OneReferenceFieldForBoth(m)
               /\ \/ ~FieldExists(m.id)
                  \/ FieldById(m.id).blocks = {}

\* C21: after the second conversion of a container field the model has one
\* reference field, which lists the destination types of both conversions;
\* the container field is removed when the two converted types were the only
\* ones it allowed, and otherwise it is left with the block types it allowed
\* minus the converted ones.
TwoConversionsOneReferenceField ==
    \A i \in 1..Len(modularContentFields) :
        LET m == modularContentFields[i]
        IN  SecondConversionDone(i)
            => /\ OneReferenceFieldForBoth(m)
               /\ IF m.allowedBlockIds = {TargetBlock}
                  THEN ~FieldExists(m.id)
                  ELSE /\ FieldExists(m.id)
                       /\ FieldById(m.id).blocks = m.allowedBlockIds \ {TargetBlock}

\* The second conversion of a field that allowed two block types has returned:
\* the container field is gone, the links field lists both models and holds
\* the links of both conversions.
SecondConversionRemovedField ==
    /\ SecondConversionDone(1)
    /\ modularContentFields[1].allowedBlockIds = {TargetBlock}
    /\ ~FieldExists("f_gal")
    /\ FieldById("f_gal_links").links = {"M", newModel}
    /\ ~modularContentFields[1].localized
    /\ records["r1"].f["gallery_links"] = LinkArray(<<"m1", "n2", "n1">>)

-----------------------------------------------------------------------------
(* A whole run on a root model with five records and one plain container    *)
(* field: three of the records hold one block of the target type each.      *)

CountRecordIds == {"r1", "r2", "r3", "r4", "r5"}

\* The block of the target type record r holds, when it holds one.
CountBlockOf(r) ==
    IF r = "r1" THEN "b1" ELSE IF r = "r2" THEN "b2" ELSE IF r = "r3" THEN "b3"
    ELSE IF r = "r4" THEN "b4" ELSE "b5"

\* The three records with a target block.
CountHolders == {h \in SUBSET CountRecordIds : Cardinality(h) = 3}

\* The value of the container field: one target block in a holder, next to a
\* block of another type in r1 and r2 when the field allows it; the other
\* records have an empty list, no value or only a block of another type.
CountValue(c, r, holders, noValue) ==
    LET others == IF "O" \in c.blocks /\ r \in {"r1", "r2"}
                  THEN <<OBlock("o_" \o r)>> ELSE <<>>
    IN  IF r \in holders
        THEN BlockArray(others \o <<TBlock(CountBlockOf(r), "t")>>)
        ELSE IF noValue /\ r \in {"r3", "r4"} THEN NullValue
        ELSE BlockArray(others)

InitCount ==
    /\ itemTypes = RunTypes
    /\ \E allowed \in {{"T"}, {"T", "O"}}, holders \in CountHolders, noValue \in BOOLEAN :
          LET c == ContainerField("rich_text", FALSE, allowed)
          IN  /\ fields = <<PlainField("f_name", "name"), c, RunFields[Len(RunFields)]>>
              /\ records = [r \in CountRecordIds |->
                               [type |-> "R2",
                                f |-> [gallery |-> CountValue(c, r, holders, noValue)]]]
    /\ fullyReplace \in BOOLEAN
    /\ Idle

NextCount ==
    \/ AnalyzeBlock
    \/ CreateNewModel
    \/ StartPath
    \/ CreateOk
    \/ CreateFail
    \/ MapperAdvance
    \/ BeginFieldConversions
    \/ RTCreateLinksField
    \/ MigrateRecord
    \/ UpdateFails
    \/ RTUpdateValidators
    \/ RTCreateTempField
    \/ RTDestroyOriginal
    \/ RTRenameTemp
    \/ BeginCleanup
    \/ Complete
    \/ SchemaCallFails

SpecCount == InitCount /\ [][NextCount]_vars

\* The references record r holds in the reference field of its model.
ReferencesOf(r) ==
    LET refs == SelectSeq(fields, LAMBDA f : f.parent = records[r].type
                                             /\ f.fieldType \in {"link", "links"})
    IN  IF Len(refs) # 1 THEN <<"?">>
        ELSE IdsOf(FieldValueOf(records[r].f, refs[1].apiKey))

\* The run has returned success and no request has failed.
CountRunDone == pc = "done" /\ failures = 0

\* C22: a run on a root model with five records, three of which hold exactly
\* one block of the target type in a plain list-shaped container field,
\* creates exactly three records, one per block; afterwards the reference
\* field holds, in each of the three records, the one record created for its
\* block and nothing in the other two.
ThreeOfFiveConverted ==
    CountRunDone
    => /\ Len(created) = 3
       /\ migratedRecordsCount = 3
       /\ \A i, j \in 1..Len(created) : created[i].id = created[j].id => i = j
       /\ \A i \in 1..Len(created) : created[i].itemType = newModel
       /\ LET holders == {r \in CountRecordIds :
                             \E i \in 1..Len(created) : created[i].key = CountBlockOf(r)}
          IN  /\ Cardinality(holders) = 3
              /\ \A r \in holders :
                    \E i \in 1..Len(created) :
                       /\ created[i].key = CountBlockOf(r)
                       /\ ReferencesOf(r) = <<created[i].id>>
              /\ \A r \in CountRecordIds \ holders : ReferencesOf(r) = <<>>

\* The run on the project whose holders are r2, r4 and r5 is done: r4 links the
\* record of its block, r1 and r3 link nothing.
ThreeOfFiveReached ==
    /\ CountRunDone
    /\ Len(created) = 3
    /\ {created[i].key : i \in 1..3} = {"b2", "b4", "b5"}
    /\ \E i \in 1..3 : created[i].key = "b4" /\ ReferencesOf("r4") = <<created[i].id>>
    /\ ReferencesOf("r1") = <<>>
    /\ ReferencesOf("r3") = <<>>
    /\ FieldExists("f_gal")

-----------------------------------------------------------------------------
(* Safe migration mode                                                     *)

\* Ids of the block instances the records hold, at any depth.
BlockInstanceIds(recs) ==
    {Holders(recs)[i].id : i \in 1..Len(Holders(recs))} \ DOMAIN recs

\* C23: with fullyReplace disabled no step of a conversion deletes anything:
\* every field stays, the block type being converted stays, and every block
\* instance the records hold stays in their data.
SafeModeDeletesNothing ==
    [][ ~fullyReplace
        => /\ \A f \in FieldSet : HasField(fields', f.id)
           /\ (\E i \in 1..Len(itemTypes) : itemTypes[i].id = TargetBlock)
              => (\E i \in 1..Len(itemTypes') : itemTypes'[i].id = TargetBlock)
           /\ BlockInstanceIds(records) \subseteq BlockInstanceIds(records') ]_vars

-----------------------------------------------------------------------------
(* Discovery errors: the start of a run on the schemas of the resolver      *)
(* family, with the selected item type a block model or not.                *)

InitDiscovery ==
    /\ \E isBlock \in BOOLEAN :
          itemTypes = [i \in 1..Len(ResolverTypes) |->
                          IF ResolverTypes[i].id = TargetBlock
                          THEN [ResolverTypes[i] EXCEPT !.modular_block = isBlock]
                          ELSE ResolverTypes[i]]
    /\ \E al \in [1..Len(ResolverFieldBase) -> AllowedChoices] :
          fields = [i \in 1..Len(ResolverFieldBase) |->
                       [ResolverFieldBase[i] EXCEPT !.blocks = al[i]]]
    /\ records = <<>>
    /\ fullyReplace \in BOOLEAN
    /\ Idle

NextDiscovery == AnalyzeBlock \/ CreateNewModel \/ SchemaCallFails

SpecDiscovery == InitDiscovery /\ [][NextDiscovery]_vars

\* No field of the project allows the block type.
NoFieldReferences(blockId) == \A f \in FieldSet : blockId \notin f.blocks

\* The selected item type is not a block model, or no field allows it.
DiscoveryError ==
    \/ \E i \in 1..Len(itemTypes) :
          itemTypes[i].id = TargetBlock /\ ~itemTypes[i].modular_block
    \/ NoFieldReferences(TargetBlock)

\* C24: when the selected item type is not a block model, or no container
\* field allows it, the first step of the conversion reports failure, and the
\* run never creates, updates or destroys an item type, a field or a record.
DiscoveryFailsBeforeMutation ==
    /\ [][ (pc = "start" /\ DiscoveryError)
           => /\ pc' = "failed"
              /\ UNCHANGED <<itemTypes, fields, records, created, newModel, lastWrite>> ]_vars
    /\ [](DiscoveryError
          => /\ pc \in {"start", "failed"}
             /\ newModel = ""
             /\ created = <<>>
             /\ lastWrite = NoWrite
             /\ Len(itemTypes) = Len(ResolverTypes)
             /\ Len(fields) = Len(ResolverFieldBase))

\* The run on an item type that is not a block model, although fields allow
\* it, has failed without a failing request.
NotABlockFailed ==
    /\ pc = "failed"
    /\ failures = 0
    /\ ~IsModularBlock(TargetBlock)
    /\ ~NoFieldReferences(TargetBlock)
    /\ newModel = ""

-----------------------------------------------------------------------------
(* Failed record updates                                                    *)

\* C25: when the update of a record fails during the data migration of a
\* field, whether the field sits on a root model or inside a block, and
\* whether it is list-shaped or structured text, the record is skipped: the
\* migration goes on with the next record of its listing and the run does not
\* fail.
UpdateFailureSkipsRecord ==
    [][ (/\ pc = "converting"
         /\ conv.stage = "data"
         /\ conv.todo # <<>>
         /\ failures' = failures + 1)
        => /\ pc' = "converting"
           /\ conv'.stage = "data"
           /\ conv'.todo = Tail(conv.todo) ]_vars

-----------------------------------------------------------------------------
(* createNewModelFromBlock on a family of projects: block keys and names    *)
(* that need sanitizing or cutting, and item types that take the first      *)
(* candidates of the uniqueness loop by key, by name or alternately.        *)

BlockApiKeys ==
    {<<"h", "e", "r", "o">>,
     <<"n", "e", "w", "s">>,
     <<"H", "e", "r", "o", "-", "7", "_", "_", "c", "t", "a">>,
     <<"_", "7", "_">>,
     Repeat("a", 31),
     Repeat("a", 31) \o <<"_", "b", "c">>,
     Repeat("a", 36)}

BlockNames ==
    {<<"H", "e", "r", "o">>,
     <<" ", "H", "e", "r", "o", "!", " ">>,
     <<"!", "?">>}

\* How many of the first candidates are taken.
CollisionCounts == {0, 1, 2, 27, MaxAttempts, MaxAttempts + 1}

\* The projects with many taken candidates are those of two of the blocks.
ManyTakenOnlyFor(blockApiKey, blockName, taken) ==
    taken > 2 => /\ blockName = <<" ", "H", "e", "r", "o", "!", " ">>
                 /\ blockApiKey \in {<<"h", "e", "r", "o">>, Repeat("a", 36)}

\* The item type that takes candidate j of the loop without debug suffix.
TakenModel(blockApiKey, blockName, how, j) ==
    LET byKey == how = "key" \/ (how = "alternate" /\ j % 2 = 0)
    IN  [id |-> "e" \o ToString(j), modular_block |-> FALSE,
         api_key |-> IF byKey THEN CandidateApiKey(blockApiKey, <<>>, j)
                     ELSE <<"z">> \o counterToLetterSuffix(j + 1),
         name |-> IF byKey THEN <<"Z">> \o DecimalOf(j)
                  ELSE CandidateName(blockName, <<>>, j)]

BuilderTypes(blockApiKey, blockName, how, taken) ==
    <<[id |-> "R1", modular_block |-> FALSE, api_key |-> <<"p", "a", "g", "e", "s">>,
       name |-> <<"P", "a", "g", "e">>],
      [id |-> TargetBlock, modular_block |-> TRUE, api_key |-> blockApiKey,
       name |-> blockName]>>
    \o [j \in 1..taken |-> TakenModel(blockApiKey, blockName, how, j - 1)]

BuilderFields ==
    <<[id |-> "f_items", parent |-> "R1", apiKey |-> "items", fieldType |-> "rich_text",
       localized |-> FALSE, blocks |-> {TargetBlock}, links |-> {}],
      RunFields[Len(RunFields)]>>

InitBuilder ==
    /\ \E blockApiKey \in BlockApiKeys, blockName \in BlockNames,
          how \in {"key", "name", "alternate"}, taken \in CollisionCounts :
          /\ ManyTakenOnlyFor(blockApiKey, blockName, taken)
          /\ itemTypes = BuilderTypes(blockApiKey, blockName, how, taken)
    /\ fields = BuilderFields
    /\ records = <<>>
    /\ fullyReplace = FALSE
    /\ Idle

NextBuilder == AnalyzeBlock \/ CreateNamedModel \/ SchemaCallFails

SpecBuilder == InitBuilder /\ [][NextBuilder]_vars

\* The candidates of the loop without debug suffix, base candidate first, that
\* an item type takes by key or by name.
TakenCandidates ==
    LET block == ItemTypeById(TargetBlock)
        baseApiKey == BaseApiKey(block.api_key, <<>>)
        baseName == BaseName(block.name)
    IN  {j \in 0..MaxAttempts :
            \E i \in 1..Len(itemTypes) :
               \/ itemTypes[i].api_key = FinalApiKey(baseApiKey, j)
               \/ itemTypes[i].name = FinalName(baseName, <<>>, j)}

\* C26: the search for a unique api_key and name makes at most MaxAttempts
\* retries: the model that is created has the key and the name of the first
\* free candidate, which is the base candidate or one of the MaxAttempts
\* suffixed ones; when the base candidate and every suffixed candidate up to
\* the ceiling are taken, createNewModelFromBlock throws, the run fails and no
\* item type and no field is created.
UniquenessSearchBounded ==
    [][ (pc = "analyzed" /\ failures' = failures)
        => LET taken == TakenCandidates
               free == (0..MaxAttempts) \ taken
               block == ItemTypeById(TargetBlock)
           IN  IF free = {}
               THEN /\ pc' = "failed"
                    /\ UNCHANGED <<itemTypes, fields, newModel, records, created>>
               ELSE LET j == CHOOSE k \in free : \A l \in free : k <= l
                    IN  /\ pc' = "mapping"
                        /\ Len(itemTypes') = Len(itemTypes) + 1
                        /\ itemTypes'[Len(itemTypes')].api_key =
                              CandidateApiKey(block.api_key, <<>>, j)
                        /\ itemTypes'[Len(itemTypes')].name =
                              CandidateName(block.name, <<>>, j) ]_vars

\* The base candidate and the hundred suffixed ones were all taken: the run
\* has failed without a failing request and without a new model.
UniquenessExhausted ==
    /\ pc = "failed"
    /\ failures = 0
    /\ newModel = ""
    /\ Len(itemTypes) = MaxAttempts + 3
    /\ TakenCandidates = 0..MaxAttempts
    /\ IsModularBlock(TargetBlock)

-----------------------------------------------------------------------------
(* The same builder with debug options, on projects that may hold the model *)
(* an earlier debug run has created for the block.                          *)

\* The model a debug run with the suffix creates in a project without models
\* of that key or name.
EarlierDebugModel(blockApiKey, blockName, rawDebugSuffix) ==
    [id |-> "D", modular_block |-> FALSE,
     api_key |-> ValidatedApiKey(CandidateApiKey(blockApiKey, rawDebugSuffix, 0)),
     name |-> CandidateName(blockName, rawDebugSuffix, 0)]

InitBuilderDebug ==
    /\ \E blockApiKey \in BlockApiKeys, blockName \in BlockNames,
          how \in {"key", "name", "alternate"}, taken \in {0, 1, 2},
          earlier \in DebugSuffixes \cup {<<>>} :
          itemTypes = BuilderTypes(blockApiKey, blockName, how, taken)
                        \o (IF earlier = <<>> THEN <<>>
                            ELSE <<EarlierDebugModel(blockApiKey, blockName, earlier)>>)
    /\ fields = BuilderFields
    /\ records = <<>>
    /\ fullyReplace = FALSE
    /\ Idle

NextBuilderDebug ==
    \/ AnalyzeBlock
    \/ CreateNamedModel
    \/ CreateNamedModelDebug
    \/ SchemaCallFails

SpecBuilderDebug == InitBuilderDebug /\ [][NextBuilderDebug]_vars

\* C27: the api_key submitted with the request that creates the new model
\* differs from the api_key of every item type the listing showed.
SubmittedKeyUnique ==
    [][ newModel' # newModel
        => \A i \in 1..Len(itemTypes) :
              itemTypes[i].api_key # itemTypes'[Len(itemTypes')].api_key ]_vars

-----------------------------------------------------------------------------
(* migrateGroupedBlocksToRecords in projects with other locale lists: the  *)
(* groups of one path have been collected and handed to the batch.         *)

\* site.locales of the projects; the first one is the project's default
\* locale.
SiteLocales ==
    {<<"en", "it">>, <<"it", "en">>, <<"it", "de">>,
     <<"en", "it", "de">>, <<"it", "en", "de">>, <<"de", "it", "en">>}

LocaleFieldKeys == {"title", "text"}

\* The attributes of the block instance of one locale: every field of the
\* block, filled in or empty.
LocaleBlockData(l) == [LocaleFieldKeys -> {StringValue(l), NullValue}]

\* The locale keys a group can have: the locales of the localized value the
\* block instances were found under, or __default__ alone.
GroupLocaleKeys(locales) ==
    ((SUBSET Range(locales)) \ {{}}) \cup {{"__default__"}}

\* The groups getGroupedBlockInstances can return for the position 0 of a
\* field of record r1.
LocaleGroups(locales) ==
    {[groupKey     |-> "r1_0",
      rootRecordId |-> "r1",
      pathIndices  |-> <<0>>,
      localeData   |-> d,
      allBlockIds  |-> [i \in 1..Cardinality(DOMAIN d) |-> "r1_0_" \o ToString(i)]] :
        d \in UNION {{f \in [S -> UNION {LocaleBlockData(l) : l \in S}] :
                          \A l \in S : f[l] \in LocaleBlockData(l)} :
                        S \in GroupLocaleKeys(locales)}}

InitLocale ==
    /\ itemTypes = Append(RunTypes, [id |-> NewModelId, modular_block |-> FALSE])
    /\ fields = RunFields
    /\ records = RunRecords
    /\ fullyReplace = FALSE
    /\ pc = "mapping"
    /\ modularContentFields = <<>>
    /\ nestedPaths = <<>>
    /\ search = NoSearch
    /\ screen = NoScreen
    /\ cache = NoCache
    /\ runs = <<>>
    /\ rename = NoRename
    /\ created = <<>>
    /\ newModel = NewModelId
    /\ globalMapping = <<>>
    /\ pathIdx = 1
    /\ \E locales \in SiteLocales : \E group \in LocaleGroups(locales) :
          mapper = [availableLocales |-> locales, groupsToMigrate |-> <<group>>]
                   @@ [MapperIdle EXCEPT !.state = "running", !.path = 1,
                                         !.inFlight = {group}]
    /\ migratedRecordsCount = 0
    /\ fieldIdx = 1
    /\ conv = ConvIdle
    /\ convertedFieldsCount = 0
    /\ lastWrite = NoWrite
    /\ failures = 0
    /\ calls = 1

\* The batch callback of migrateGroupedBlocksToRecords for one group, the
\* create succeeding: the merged values are built, the record is created,
\* every block id of the group and the group key are mapped to it.
MigrateGroup ==
    \E group \in mapper.inFlight :
        /\ Len(created) < Len(NewIds)
        /\ LET newRecordId == NewIds[Len(created) + 1]
               item == [key     |-> group.groupKey,
                        ids     |-> group.allBlockIds,
                        grouped |-> TRUE,
                        values  |-> BuildLocalizedFieldData(group,
                                        mapper.availableLocales)]
           IN
           /\ created' = Append(created,
                            [id |-> newRecordId, itemType |-> newModel,
                             values |-> item.values, key |-> item.key,
                             ids |-> item.ids, grouped |-> TRUE,
                             path |-> mapper.path, call |-> calls])
           /\ mapper' = [mapper EXCEPT
                            !.inFlight = @ \ {group},
                            !.mapping = [k \in MappedKeys(item) |-> newRecordId] @@ @,
                            !.migratedCount = @ + 1]
           /\ migratedRecordsCount' = mapper.migratedCount + 1
        /\ UNCHANGED <<schemaVars, analysisVars, convVars, pc, fullyReplace, newModel,
                       globalMapping, pathIdx, failures, calls>>

NextLocale == MigrateGroup \/ MapperAdvance

SpecLocale == InitLocale /\ [][NextLocale]_vars

\* The group a created record was merged from.
GroupOf(c) ==
    CHOOSE g \in Range(mapper.groupsToMigrate) : g.groupKey = c.key

\* The locales of a group that have data.
GroupLocales(g) == DOMAIN g.localeData \ {"__default__"}

\* The field keys with a value in at least one locale of the group.
PopulatedFieldKeys(g) == UNION {DOMAIN g.localeData[l] : l \in GroupLocales(g)}

\* The project locales the group has no data for.
MissingLocales(g, locales) == Range(locales) \ DOMAIN g.localeData

\* C28: for every group and every field key with a value in at least one
\* locale of the group, the merged value has an entry for every project locale
\* and no other; the entry of a locale that has the field is that locale's own
\* value, and the entries of the locales without data are the values of one
\* locale of the group, the fallback.
MergedValueForEveryLocale ==
    \A i \in 1..Len(created) :
        LET c == created[i]
            g == GroupOf(c)
            locales == mapper.availableLocales
        IN  GroupLocales(g) # {} =>
              /\ \A fieldKey \in PopulatedFieldKeys(g) :
                    /\ fieldKey \in DOMAIN c.values
                    /\ DOMAIN c.values[fieldKey].v = Range(locales)
                    /\ \A l \in GroupLocales(g) :
                          fieldKey \in DOMAIN g.localeData[l]
                             => c.values[fieldKey].v[l] = g.localeData[l][fieldKey]
              /\ \E fallback \in GroupLocales(g) :
                    \A fieldKey \in PopulatedFieldKeys(g) :
                       \A l \in MissingLocales(g, locales) :
                          /\ fieldKey \in DOMAIN g.localeData[fallback]
                          /\ c.values[fieldKey].v[l] = g.localeData[fallback][fieldKey]

\* A record was merged from a group that lacks a project locale, and the title
\* of that locale was filled with a text.
MissingLocaleFilled ==
    \E i \in 1..Len(created) :
        \E l \in MissingLocales(GroupOf(created[i]), mapper.availableLocales) :
            /\ GroupLocales(GroupOf(created[i])) # {}
            /\ created[i].values["title"].v[l].k = "str"

\* The fallback locale the code comment names: 'en' when the group has data
\* for it, else the first locale of the group.
EnElseFirst(g, locales) ==
    IF "en" \in GroupLocales(g) THEN "en"
    ELSE Head(SelectSeq(locales, LAMBDA l : l \in GroupLocales(g)))

\* The project's default locale when the group has data for it, else the first
\* locale of the group.
DefaultElseFirst(g, locales) ==
    IF Head(locales) \in GroupLocales(g) THEN Head(locales)
    ELSE Head(SelectSeq(locales, LAMBDA l : l \in GroupLocales(g)))

\* The locales the group lacks hold the values of locale `from`.
FilledFrom(c, g, locales, from) ==
    \A fieldKey \in PopulatedFieldKeys(g) :
       \A l \in MissingLocales(g, locales) :
          c.values[fieldKey].v[l] = g.localeData[from][fieldKey]

\* C29 as stated: the missing locales of a group are filled from the project's
\* default locale whenever the group has data for it, and otherwise from the
\* first locale of the group that has data.
FilledFromProjectDefault ==
    \A i \in 1..Len(created) :
        GroupLocales(GroupOf(created[i])) # {}
           => FilledFrom(created[i], GroupOf(created[i]), mapper.availableLocales,
                         DefaultElseFirst(GroupOf(created[i]), mapper.availableLocales))

\* C29: the missing locales of a group are filled from the locale 'en'
\* whenever the group has data for 'en', whatever the project's default locale
\* is, and otherwise from the first locale of the group that has data.
FilledFromEnElseFirst ==
    \A i \in 1..Len(created) :
        GroupLocales(GroupOf(created[i])) # {}
           => FilledFrom(created[i], GroupOf(created[i]), mapper.availableLocales,
                         EnElseFirst(GroupOf(created[i]), mapper.availableLocales))

\* A record was merged in a project whose default locale is not 'en', from a
\* group with a title in the default locale and in 'en', and a locale the
\* group lacks holds the title of 'en'.
FilledFromEnNotDefault ==
    \E i \in 1..Len(created) :
        LET g == GroupOf(created[i])
            locales == mapper.availableLocales
        IN  /\ Head(locales) # "en"
            /\ {Head(locales), "en"} \subseteq GroupLocales(g)
            /\ g.localeData[Head(locales)]["title"].k = "str"
            /\ \E l \in MissingLocales(g, locales) :
                  created[i].values["title"].v[l] = StringValue("en")

-----------------------------------------------------------------------------
(* buildNestedPathsToRootModels and findPathsToBlock step by step: one      *)
(* step per loop iteration, call and return.                                *)

\* Call depth the stack may reach; the search itself stays below it.
MaxDepth == 6

\* A field on every kind of model: root, the blocks A and B, the target.
SearchFieldBase ==
    <<[id |-> "f_r1", parent |-> "R1", apiKey |-> "r1", fieldType |-> "rich_text",
       localized |-> TRUE,  blocks |-> {}, links |-> {}],
      [id |-> "f_a1", parent |-> "A",  apiKey |-> "a1", fieldType |-> "rich_text",
       localized |-> FALSE, blocks |-> {}, links |-> {}],
      [id |-> "f_b1", parent |-> "B",  apiKey |-> "b1", fieldType |-> "structured_text",
       localized |-> FALSE, blocks |-> {}, links |-> {}],
      [id |-> "f_t1", parent |-> "T",  apiKey |-> "t1", fieldType |-> "single_block",
       localized |-> FALSE, blocks |-> {}, links |-> {}]>>

\* Every field allows any blocks, the block that owns it included.
InitSearch ==
    /\ itemTypes = ResolverTypes
    /\ \E al \in [1..Len(SearchFieldBase) -> SUBSET ResolverBlocks] :
          fields = [i \in 1..Len(SearchFieldBase) |->
                       [SearchFieldBase[i] EXCEPT !.blocks = al[i]]]
    /\ records = <<>>
    /\ fullyReplace = FALSE
    /\ Idle

MarkNothing(visitedBlocks, blockId) == visitedBlocks

\* visitedBlocks.add(blockId)
MarkVisited(visitedBlocks, blockId) == visitedBlocks \cup {blockId}

\* A findPathsToBlock call that has not yet run its first statement.
CallFrame(blockId) == [blockId |-> blockId, stage |-> "entry", pos |-> 0, result |-> <<>>]

Top(stack) == stack[Len(stack)]
Pop(stack) == SubSeq(stack, 1, Len(stack) - 1)

\* The paths buildNestedPathsToRootModels pushes for a field owned by a block,
\* from the paths to its owner.
FullPaths(mcField, pathsToParent, targetBlockId) ==
    [k \in 1..Len(pathsToParent) |->
        LET fullPath == Append(pathsToParent[k].path,
                            [fieldApiKey         |-> mcField.apiKey,
                             expectedBlockTypeId |-> targetBlockId,
                             localized           |-> mcField.localized,
                             fieldType           |-> mcField.fieldType])
        IN  [rootModelId |-> pathsToParent[k].rootModelId,
             path |-> fullPath,
             fieldInfo |-> mcField,
             isInLocalizedContext |->
                 \E s \in 1..Len(fullPath) : fullPath[s].localized]]

\* A call returns pathsToParent: the calling findPathsToBlock extends its
\* result and goes on with its next field; with no caller left,
\* buildNestedPathsToRootModels pushes the full paths and takes its next field.
ReturnTo(callers, pathsToParent) ==
    IF callers # <<>>
    THEN LET caller == Top(callers)
             field == FieldsInOrder[caller.pos]
             ext == [k \in 1..Len(pathsToParent) |->
                       [rootModelId |-> pathsToParent[k].rootModelId,
                        path |-> Append(pathsToParent[k].path,
                                        PathStep(field, caller.blockId))]]
         IN  /\ search' = [search EXCEPT
                              !.stack = Append(Pop(callers),
                                           [caller EXCEPT !.stage = "loop",
                                                          !.pos = @ + 1,
                                                          !.result = @ \o ext])]
             /\ UNCHANGED nestedPaths
    ELSE /\ nestedPaths' = nestedPaths
                             \o FullPaths(modularContentFields[search.i],
                                          pathsToParent, TargetBlock)
         /\ search' = [search EXCEPT !.stack = <<>>, !.awaiting = FALSE, !.i = @ + 1]

\* analyzeBlock up to the call of buildNestedPathsToRootModels.
BeginSearch ==
    /\ pc = "start"
    /\ IsModularBlock(TargetBlock)
    /\ modularContentFields' = findModularContentFieldsUsingBlock(TargetBlock)
    /\ nestedPaths' = <<>>
    /\ search' = [NoSearch EXCEPT !.i = 1]
    /\ pc' = "searching"
    /\ UNCHANGED <<schemaVars, uiVars, mapVars, convVars, fullyReplace, newModel, failures>>

\* One iteration of the loop of buildNestedPathsToRootModels: the direct path
\* of a field of a root model, or the call findPathsToBlock(parent, new Set()).
VisitField ==
    /\ pc = "searching"
    /\ search.stack = <<>>
    /\ search.i <= Len(modularContentFields)
    /\ LET mcField == modularContentFields[search.i] IN
       IF ~mcField.parentIsBlock
       THEN /\ nestedPaths' = nestedPaths \o PathsForField(mcField, TargetBlock)
            /\ search' = [search EXCEPT !.i = @ + 1]
       ELSE /\ search' = [search EXCEPT !.stack = <<CallFrame(mcField.parentModelId)>>,
                                        !.visited = {},
                                        !.awaiting = TRUE]
            /\ UNCHANGED nestedPaths
    /\ UNCHANGED <<schemaVars, uiVars, mapVars, convVars, pc, fullyReplace, newModel,
                   failures, modularContentFields>>

\* The first statements of findPathsToBlock: a visited block returns no paths,
\* another one is added to the set.
EnterBlock ==
    /\ pc = "searching"
    /\ search.stack # <<>>
    /\ Top(search.stack).stage = "entry"
    /\ LET frame == Top(search.stack) IN
       IF frame.blockId \in search.visited
       THEN ReturnTo(Pop(search.stack), <<>>)
       ELSE /\ search' = [search EXCEPT
                             !.visited = MarkVisited(@, frame.blockId),
                             !.stack = Append(Pop(search.stack),
                                          [frame EXCEPT !.stage = "loop", !.pos = 1])]
            /\ UNCHANGED nestedPaths
    /\ UNCHANGED <<schemaVars, uiVars, mapVars, convVars, pc, fullyReplace, newModel,
                   failures, modularContentFields>>

\* One iteration of the loops of findPathsToBlock: a field that does not hold
\* the block, a field of a root model, or a field of a block and the call for
\* that block.
ScanField ==
    /\ pc = "searching"
    /\ search.stack # <<>>
    /\ Top(search.stack).stage = "loop"
    /\ Top(search.stack).pos <= Len(FieldsInOrder)
    /\ LET frame == Top(search.stack)
           field == FieldsInOrder[frame.pos]
       IN  IF ~ContainsBlock(field, frame.blockId)
           THEN search' = [search EXCEPT
                              !.stack = Append(Pop(search.stack),
                                               [frame EXCEPT !.pos = @ + 1])]
           ELSE IF ~IsModularBlock(field.parent)
           THEN search' = [search EXCEPT
                              !.stack = Append(Pop(search.stack),
                                  [frame EXCEPT
                                      !.pos = @ + 1,
                                      !.result = Append(@,
                                          [rootModelId |-> field.parent,
                                           path |-> <<PathStep(field, frame.blockId)>>])])]
           ELSE /\ Len(search.stack) < MaxDepth
                /\ search' = [search EXCEPT
                                 !.stack = Append(Append(Pop(search.stack),
                                                      [frame EXCEPT !.stage = "awaiting"]),
                                                  CallFrame(field.parent))]
    /\ UNCHANGED <<schemaVars, uiVars, mapVars, convVars, pc, fullyReplace, newModel,
                   failures, modularContentFields, nestedPaths>>

\* The loops of a findPathsToBlock call are done: it returns its result.
ReturnPaths ==
    /\ pc = "searching"
    /\ search.stack # <<>>
    /\ Top(search.stack).stage = "loop"
    /\ Top(search.stack).pos > Len(FieldsInOrder)
    /\ ReturnTo(Pop(search.stack), Top(search.stack).result)
    /\ UNCHANGED <<schemaVars, uiVars, mapVars, convVars, pc, fullyReplace, newModel,
                   failures, modularContentFields>>

\* buildNestedPathsToRootModels returns; the run fails when no field uses the
\* block.
EndSearch ==
    /\ pc = "searching"
    /\ search.stack = <<>>
    /\ search.i > Len(modularContentFields)
    /\ pc' = IF modularContentFields = <<>> THEN "failed" ELSE "analyzed"
    /\ UNCHANGED <<schemaVars, analysisVars, mapVars, convVars, fullyReplace,
                   newModel, failures>>

NextSearch ==
    BeginSearch \/ VisitField \/ EnterBlock \/ ScanField \/ ReturnPaths \/ EndSearch

\* Every awaited schema call returns and the continuation runs.
SpecSearch == InitSearch /\ [][NextSearch]_vars /\ WF_vars(NextSearch)

\* The steps compute what the recursive definition computes.
SearchAgrees ==
    pc \in {"analyzed", "failed"}
        => nestedPaths = buildNestedPathsToRootModels(modularContentFields, TargetBlock)

\* A findPathsToBlock call is about to find its block in visitedBlocks.
AtVisitedBlock ==
    /\ pc = "searching"
    /\ search.stack # <<>>
    /\ Top(search.stack).stage = "entry"
    /\ Top(search.stack).blockId \in search.visited

\* C30: the upward search ends on every schema graph, graphs with a block
\* embeddable within itself directly or through other blocks included, and a
\* call that reaches an already visited block returns no paths to its caller,
\* which goes on with its next field: the run does not fail there.
SearchTerminates ==
    /\ <>(pc \in {"analyzed", "failed"})
    /\ [][AtVisitedBlock
           => /\ pc' = "searching"
              /\ search'.visited = search.visited
              /\ Len(search'.stack) = Len(search.stack) - 1
              /\ Top(search'.stack).stage = "loop"
              /\ Top(search'.stack).result = search.stack[Len(search.stack) - 1].result
              /\ Top(search'.stack).pos = search.stack[Len(search.stack) - 1].pos + 1]_vars

\* The search has run into a block that is embeddable within itself and has
\* found it visited.
SelfEmbeddedDeadEnd ==
    /\ AtVisitedBlock
    /\ \E i \in 1..Len(fields) :
          /\ fields[i].parent = Top(search.stack).blockId
          /\ ContainsBlock(fields[i], Top(search.stack).blockId)

-----------------------------------------------------------------------------
(* The configuration screen: handleBlockSelect and the analyzeBlock calls  *)
(* it starts, one step per awaited API call.  The block selector stays     *)
(* enabled while an analysis runs.                                         *)

\* Selections the user makes in one behaviour.
MaxSelections == 2

\* A project with the target inside block A, and A on a root model.
ScreenTypes ==
    <<[id |-> "R1", modular_block |-> FALSE],
      [id |-> "A",  modular_block |-> TRUE],
      [id |-> "T",  modular_block |-> TRUE]>>

ScreenFields ==
    <<[id |-> "f_r1", parent |-> "R1", apiKey |-> "r1", fieldType |-> "rich_text",
       localized |-> FALSE, blocks |-> {"A"}, links |-> {}],
      [id |-> "f_a1", parent |-> "A",  apiKey |-> "a1", fieldType |-> "rich_text",
       localized |-> FALSE, blocks |-> {"T"}, links |-> {}]>>

\* The options of the block selector: no block, or one of blockModels.
SelectorOptions == {"", "A", "T"}

InitScreen ==
    /\ itemTypes = ScreenTypes
    /\ fields = ScreenFields
    /\ records = <<>>
    /\ fullyReplace = FALSE
    /\ Idle

\* The item type ids in listing order.
ItemTypeIds == [i \in 1..Len(itemTypes) |-> itemTypes[i].id]

RECURSIVE RepeatSeq(_, _)
RepeatSeq(seq, n) == IF n = 0 THEN <<>> ELSE seq \o RepeatSeq(seq, n - 1)

\* The findPathsToBlock calls of one analysis that scan the fields: one per
\* block added to a visited set.
RECURSIVE SearchScansFrom(_, _)
SearchScansFrom(mcFields, i) ==
    IF i > Len(mcFields) THEN 0
    ELSE (IF mcFields[i].parentIsBlock
          THEN Cardinality(findPathsToBlock(mcFields[i].parentModelId, {}).visited)
          ELSE 0)
         + SearchScansFrom(mcFields, i + 1)

\* The cached lookups of analyzeBlock in call order: getAllItemTypes and one
\* getFieldsForItemType per item type in findModularContentFieldsUsingBlock,
\* getAllItemTypes in buildNestedPathsToRootModels, one getFieldsForItemType
\* per item type in every scanning findPathsToBlock call.
Lookups(blockId) ==
    <<"itemTypes">> \o ItemTypeIds \o <<"itemTypes">>
       \o RepeatSeq(ItemTypeIds,
                    SearchScansFrom(findModularContentFieldsUsingBlock(blockId), 1))

\* The cache entry a lookup finds, if any; an entry holds the list and the
\* run that fetched it.
Cached(c, key) ==
    IF key = "itemTypes" THEN c.itemTypes
    ELSE {e \in c.fields : e.key = key}

\* The list the API returns for a lookup.
Listed(key) == IF key = "itemTypes" THEN itemTypes ELSE getFieldsForItemType(key)

\* itemTypesCache = ... / fieldsCache.set(itemTypeId, mapped)
CacheSet(key, r) ==
    IF key = "itemTypes"
    THEN [cache EXCEPT !.itemTypes = {[key |-> key, by |-> r, list |-> Listed(key)]}]
    ELSE [cache EXCEPT !.fields = {e \in @ : e.key # key}
                                     \cup {[key |-> key, by |-> r, list |-> Listed(key)]}]

\* handleBlockSelect up to its first await: the selection and the state are
\* set; for a block, analyzeBlock is called, which clears the caches and
\* requests the block.
SelectBlock ==
    \E blockId \in SelectorOptions :
        /\ pc = "start"
        /\ Len(runs) < MaxSelections
        /\ IF blockId = ""
           THEN /\ screen' = [selectedBlockId |-> "", status |-> "idle", analysis |-> ""]
                /\ runs' = Append(runs, [block |-> "", at |-> "done", todo |-> <<>>,
                                         sources |-> {}, cleared |-> FALSE])
                /\ UNCHANGED cache
           ELSE /\ screen' = [selectedBlockId |-> blockId, status |-> "analyzing",
                              analysis |-> ""]
                /\ cache' = NoCache
                /\ runs' = Append(runs, [block |-> blockId, at |-> "find", todo |-> <<>>,
                                         sources |-> {}, cleared |-> TRUE])
        /\ UNCHANGED <<schemaVars, modularContentFields, nestedPaths, search, rename,
                       mapVars, convVars, pc, fullyReplace, newModel, failures>>

\* The run goes through its lookups as long as the cache has the list (the
\* continuation after a cached list runs before any response or user event
\* is handled) and stops at the first list it has to request, or at the
\* record count when no lookup is left.
RECURSIVE AfterHits(_, _)
AfterHits(run, c) ==
    IF run.todo = <<>> THEN [run EXCEPT !.at = "counting"]
    ELSE LET hit == Cached(c, Head(run.todo)) IN
         IF hit = {} THEN [run EXCEPT !.at = "listing"]
         ELSE AfterHits([run EXCEPT !.todo = Tail(@),
                                    !.sources = @ \cup {e.by : e \in hit}], c)

\* client.itemTypes.find returns a block model; the block's fields are
\* requested.
FindReturns ==
    \E r \in 1..Len(runs) :
        /\ runs[r].at = "find"
        /\ IsModularBlock(runs[r].block)
        /\ runs' = [runs EXCEPT ![r].at = "blockFields"]
        /\ UNCHANGED <<schemaVars, modularContentFields, nestedPaths, search, rename,
                       screen, cache, mapVars, convVars, pc, fullyReplace, newModel, failures>>

\* client.fields.list of the block returns: the cached lookups begin.
BlockFieldsReturn ==
    \E r \in 1..Len(runs) :
        /\ runs[r].at = "blockFields"
        /\ runs' = [runs EXCEPT ![r] =
                       AfterHits([@ EXCEPT !.todo = Lookups(runs[r].block)], cache)]
        /\ UNCHANGED <<schemaVars, modularContentFields, nestedPaths, search, rename,
                       screen, cache, mapVars, convVars, pc, fullyReplace, newModel, failures>>

\* The list getAllItemTypes or getFieldsForItemType has requested arrives: it
\* is cached and returned, and the run goes on.
ListReturns ==
    \E r \in 1..Len(runs) :
        /\ runs[r].at = "listing"
        /\ cache' = CacheSet(Head(runs[r].todo), r)
        /\ runs' = [runs EXCEPT ![r] =
                       AfterHits([@ EXCEPT !.todo = Tail(@), !.sources = @ \cup {r}],
                                 CacheSet(Head(runs[r].todo), r))]
        /\ UNCHANGED <<schemaVars, modularContentFields, nestedPaths, search, rename,
                       screen, mapVars, convVars, pc, fullyReplace, newModel, failures>>

\* The records are counted and analyzeBlock returns: handleBlockSelect sets
\* the analyzed state.
AnalysisReturns ==
    \E r \in 1..Len(runs) :
        /\ runs[r].at = "counting"
        /\ runs' = [runs EXCEPT ![r].at = "done"]
        /\ screen' = [screen EXCEPT !.status = "analyzed", !.analysis = runs[r].block]
        /\ UNCHANGED <<schemaVars, modularContentFields, nestedPaths, search, rename,
                       cache, mapVars, convVars, pc, fullyReplace, newModel, failures>>

\* An awaited API call of analyzeBlock rejects: handleBlockSelect sets the
\* error state.
AnalysisFails ==
    \E r \in 1..Len(runs) :
        /\ runs[r].at \in {"find", "blockFields", "listing", "counting"}
        /\ failures < MaxFailures
        /\ failures' = failures + 1
        /\ runs' = [runs EXCEPT ![r].at = "done"]
        /\ screen' = [screen EXCEPT !.status = "error", !.analysis = ""]
        /\ UNCHANGED <<schemaVars, modularContentFields, nestedPaths, search, rename,
                       cache, mapVars, convVars, pc, fullyReplace, newModel>>

NextScreen ==
    \/ SelectBlock \/ FindReturns \/ BlockFieldsReturn \/ ListReturns
    \/ AnalysisReturns \/ AnalysisFails

SpecScreen == InitScreen /\ [][NextScreen]_vars

\* C31: every analysis run starts with empty caches, and every list a run
\* gets from getAllItemTypes or getFieldsForItemType was fetched by that run,
\* whether the runs follow each other or overlap.
CacheLocalToRun ==
    /\ [][\A r \in 1..Len(runs') :
             (r > Len(runs) /\ runs'[r].block # "") => cache' = NoCache]_vars
    /\ [](\A r \in 1..Len(runs) : runs[r].sources \subseteq {r})


\* No analyzeBlock call is in flight.
Settled == \A r \in 1..Len(runs) : runs[r].at = "done"

\* C39: once every analysis the selections have started is over, the analysis
\* the screen shows in the analyzed state is the analysis of the block that is
\* selected, also when a second block was selected before the analysis of the
\* first had finished.
DisplayedAnalysisOfSelected ==
    (Settled /\ screen.status = "analyzed" /\ screen.selectedBlockId # "")
        => screen.analysis = screen.selectedBlockId


-----------------------------------------------------------------------------
(* The batches of the mappers                                              *)

\* The items the running mapper call hands to processBatch, in order.
CurrentWork ==
    LET nestedPath == nestedPaths[mapper.path]
    IN  IF nestedPath.isInLocalizedContext
        THEN GroupedWork(nestedPath, globalMapping)
        ELSE PlainWork(nestedPath, globalMapping, shouldLocalizeFields)

\* items.slice(i, i + batchSize): the batch the k-th item belongs to.
BatchOf(k) == (k - 1) \div BatchSize

\* C32: the items of one batch are independent: no two of them create the
\* record of the same block instance or group, and no two of them write the
\* same key of the mapping.
BatchItemsIndependent ==
    mapper.state = "running" =>
        \A i, j \in 1..Len(CurrentWork) :
            (i # j /\ BatchOf(i) = BatchOf(j)) =>
                /\ CurrentWork[i].key # CurrentWork[j].key
                /\ MappedKeys(CurrentWork[i]) \cap MappedKeys(CurrentWork[j]) = {}

\* A batch of two or more items is being processed.
BatchOfSeveral ==
    /\ mapper.state = "running"
    /\ Cardinality(mapper.inFlight) >= 2
    /\ \E i, j \in 1..Len(CurrentWork) :
          i # j /\ {CurrentWork[i], CurrentWork[j]} \subseteq mapper.inFlight


-----------------------------------------------------------------------------
(* createNewModelFromBlock: the copies of the block's fields.  The fields   *)
(* of the block carry their position and, for a slug field, the id of the  *)
(* title field its slug_title_field validator names ("" without one).      *)

CompareByPosition(a, b) == a.position - b.position

\* The comparator of sortedFields: negative, zero or positive.
CompareFields(a, b) ==
    IF a.fieldType = "slug" /\ b.fieldType # "slug" THEN 1
    ELSE IF a.fieldType # "slug" /\ b.fieldType = "slug" THEN -1
    ELSE a.position - b.position

\* [...analysis.fields].sort(comparator): a stable sort.
RECURSIVE SortFields(_)
SortFields(fieldList) ==
    IF fieldList = <<>> THEN <<>>
    ELSE LET sortedRest == SortFields(SubSeq(fieldList, 1, Len(fieldList) - 1))
             last == fieldList[Len(fieldList)]
             before == SelectSeq(sortedRest, LAMBDA f : CompareFields(f, last) <= 0)
             after == SelectSeq(sortedRest, LAMBDA f : CompareFields(f, last) > 0)
         IN  before \o <<last>> \o after

\* updateValidatorFieldReferences for the slug_title_field validator: the new
\* id of the title field, or no validator when the mapping lacks the old id.
updateValidatorFieldReferences(titleFieldId, fieldIdMapping) ==
    IF titleFieldId # "" /\ titleFieldId \in DOMAIN fieldIdMapping
    THEN fieldIdMapping[titleFieldId]
    ELSE ""

\* The loop over sortedFields: each field is created with its validators
\* rewritten by the mapping built so far, then its new id enters the mapping.
RECURSIVE CopyFieldsFrom(_, _, _, _)
CopyFieldsFrom(sortedFields, i, fieldIdMapping, forceLocalizedFields) ==
    IF i > Len(sortedFields) THEN <<>>
    ELSE LET field == sortedFields[i]
             newField == [field EXCEPT
                             !.id = "n_" \o field.id,
                             !.parent = NewModelId,
                             !.localized = IF forceLocalizedFields THEN TRUE ELSE @,
                             !.titleFieldId =
                                 updateValidatorFieldReferences(@, fieldIdMapping)]
         IN  <<newField>>
               \o CopyFieldsFrom(sortedFields, i + 1,
                                 (field.id :> newField.id) @@ fieldIdMapping,
                                 forceLocalizedFields)

CopiedFields(blockId, forceLocalizedFields) ==
    CopyFieldsFrom(SortFields(getFieldsForItemType(blockId)), 1, <<>>,
                   forceLocalizedFields)

\* createNewModelFromBlock with the loop that copies the fields.
CreateModelCopying ==
    /\ pc = "analyzed"
    /\ itemTypes' = Append(itemTypes, [id |-> NewModelId, modular_block |-> FALSE])
    /\ fields' = fields \o CopiedFields(TargetBlock, shouldLocalizeFields)
    /\ newModel' = NewModelId
    /\ pc' = "mapping"
    /\ UNCHANGED <<analysisVars, mapVars, convVars, fullyReplace, failures>>

\* The block has three fields; any of them is a string, a text or a slug
\* field, the positions are any order, and a slug field with a validator
\* names a string field of the block as its title field.
CopyFieldIds == <<"f_1", "f_2", "f_3">>

CopyFieldTypes == {"string", "text", "slug"}

CopyPositions ==
    {p \in [1..Len(CopyFieldIds) -> 1..Len(CopyFieldIds)] :
        \A i, j \in 1..Len(CopyFieldIds) : p[i] = p[j] => i = j}

\* The title fields the slug fields may name, given the types of the fields.
CopyTitleChoices(t) ==
    {w \in [1..Len(CopyFieldIds) -> {""} \cup Range(CopyFieldIds)] :
        \A i \in 1..Len(CopyFieldIds) :
           w[i] # "" => /\ t[i] = "slug"
                        /\ \E j \in 1..Len(CopyFieldIds) :
                              CopyFieldIds[j] = w[i] /\ t[j] = "string"}

CopyBlockFields ==
    UNION {{[i \in 1..Len(CopyFieldIds) |->
                [id |-> CopyFieldIds[i], parent |-> "T", apiKey |-> CopyFieldIds[i],
                 fieldType |-> t[i], localized |-> FALSE, blocks |-> {}, links |-> {},
                 position |-> p[i], titleFieldId |-> v[i]]] :
              p \in CopyPositions, v \in CopyTitleChoices(t)} :
           t \in [1..Len(CopyFieldIds) -> CopyFieldTypes]}

InitCopy ==
    /\ itemTypes = <<[id |-> "R1", modular_block |-> FALSE],
                     [id |-> "T",  modular_block |-> TRUE]>>
    /\ \E blockFields \in CopyBlockFields :
          fields = <<[id |-> "f_r1", parent |-> "R1", apiKey |-> "r1",
                      fieldType |-> "rich_text", localized |-> FALSE,
                      blocks |-> {"T"}, links |-> {},
                      position |-> 1, titleFieldId |-> ""]>> \o blockFields
    /\ records = <<>>
    /\ fullyReplace = FALSE
    /\ Idle

NextCopy == AnalyzeBlock \/ CreateModelCopying

SpecCopy == InitCopy /\ [][NextCopy]_vars

\* The place of a field in the listing, 0 when it is not there.
FieldIndex(fieldId) ==
    IF \E i \in 1..Len(fields) : fields[i].id = fieldId
    THEN CHOOSE i \in 1..Len(fields) : fields[i].id = fieldId
    ELSE 0

\* C33: every copy of a field whose validator names another field of the
\* block was created after the copy of that field, and its validator names
\* the copy.
ReferencedFieldCopiedFirst ==
    newModel # "" =>
        \A i \in 1..Len(fields) :
            (fields[i].parent = TargetBlock /\ fields[i].titleFieldId # "") =>
                LET copy == FieldIndex("n_" \o fields[i].id)
                    referenced == FieldIndex("n_" \o fields[i].titleFieldId)
                IN  /\ copy # 0
                    /\ referenced # 0
                    /\ referenced < copy
                    /\ fields[copy].titleFieldId = "n_" \o fields[i].titleFieldId

\* A slug field that comes before its title field in position order has been
\* copied.
SlugBeforeTitleCopied ==
    /\ newModel # ""
    /\ \E i, j \in 1..Len(fields) :
          /\ fields[i].parent = TargetBlock
          /\ fields[j].parent = TargetBlock
          /\ fields[i].titleFieldId = fields[j].id
          /\ fields[i].position < fields[j].position


-----------------------------------------------------------------------------
(* The block instances of a record along a path, defined from the values   *)

\* The items a container value holds: the blocks of the array, the single
\* block, the items of the block and inlineBlock nodes of the document.
ItemsOf(fieldValue, fieldType) ==
    IF IsFalsy(fieldValue) THEN {}
    ELSE IF fieldType = "rich_text" /\ fieldValue.k = "list"
    THEN Range(fieldValue.items)
    ELSE IF fieldType = "single_block" /\ fieldValue.k = "block"
    THEN {fieldValue.b}
    ELSE IF fieldType = "structured_text" /\ isStructuredTextValue(fieldValue)
    THEN {BlockNodesInAll(fieldValue.children)[i].item :
             i \in 1..Len(BlockNodesInAll(fieldValue.children))}
    ELSE {}

\* The target items reached from currentData by the fields of the path from
\* step pathIndex on, through items of the expected types: each with the
\* locale it occurs in.
RECURSIVE ReachedFrom(_, _, _, _, _)
ReachedFrom(currentData, path, pathIndex, locale, targetBlockId) ==
    LET step == path[pathIndex]
        fieldValue == FieldValueOf(currentData, step.fieldApiKey)
        Through(value, loc) ==
            IF pathIndex = Len(path)
            THEN {[blockId |-> getBlockId(b), locale |-> loc] :
                     b \in {c \in ItemsOf(value, step.fieldType) :
                               getBlockTypeId(c) = targetBlockId}}
            ELSE UNION {ReachedFrom(getBlockAttributes(b), path, pathIndex + 1, loc,
                                    targetBlockId) :
                           b \in {c \in ItemsOf(value, step.fieldType) :
                                     getBlockTypeId(c) = step.expectedBlockTypeId}}
    IN  IF IsFalsy(fieldValue) THEN {}
        ELSE IF step.localized /\ IsLocaleHash(fieldValue)
        THEN UNION {Through(fieldValue.v[l], l) : l \in DOMAIN fieldValue.v}
        ELSE Through(fieldValue, locale)

\* What the locator returns for a record and a path.
Located(recordId, nestedPath) ==
    findBlocksAtPath(records[recordId], nestedPath.path, TargetBlock)

\* C34: for every record and path the locator returns the target items that
\* the fields of the path lead to, each once per locale it occurs in, and
\* nothing else.
LocatorReturnsReachedItems ==
    \A p \in 1..Len(nestedPaths) :
        \A r \in Range(RecordsOfType(nestedPaths[p].rootModelId)) :
            LET located == Located(r, nestedPaths[p]) IN
            /\ {[blockId |-> getBlockId(located[i].block), locale |-> located[i].locale] :
                   i \in 1..Len(located)}
                 = ReachedFrom(records[r].f, nestedPaths[p].path, 1, NoLocale,
                               TargetBlock)
            /\ \A i, j \in 1..Len(located) :
                  (i # j /\ located[i].locale = located[j].locale)
                     => /\ getBlockId(located[i].block) # getBlockId(located[j].block)
                        /\ located[i].pathIndices # located[j].pathIndices

-----------------------------------------------------------------------------
(* Destruction of the original container field                              *)

\* The record ids of a link or links value.
LinkIdsIn(value) ==
    IF value.k = "links" THEN Range(value.ids)
    ELSE IF value.k = "link" THEN {value.id}
    ELSE {}

\* The record ids record r references in the field with the api key, over
\* all locales.
LinkedIds(r, apiKey) ==
    LET v == FieldValueOf(records[r].f, apiKey)
    IN  IF IsLocaleHash(v) THEN UNION {LinkIdsIn(v.v[l]) : l \in DOMAIN v.v}
        ELSE LinkIdsIn(v)

\* The target-type instances of a rich_text or single_block value.
TargetInstancesIn(value) ==
    IF value.k = "list"
    THEN {b \in Range(value.items) : getBlockTypeId(b) = TargetBlock}
    ELSE IF value.k = "block" /\ getBlockTypeId(value.b) = TargetBlock THEN {value.b}
    ELSE {}

\* The target-type instances record r holds in the field, over all locales.
HeldInstances(r, apiKey) ==
    LET v == FieldValueOf(records[r].f, apiKey)
    IN  IF IsLocaleHash(v) THEN UNION {TargetInstancesIn(v.v[l]) : l \in DOMAIN v.v}
        ELSE TargetInstancesIn(v)

\* Record r references, in the temporary or companion field, the new record
\* of every mapped instance it holds in the original field.
ReferencesWritten(r) ==
    \A b \in HeldInstances(r, CurrentMcField.apiKey) :
        getBlockId(b) \in DOMAIN globalMapping
            => globalMapping[getBlockId(b)] \in LinkedIds(r, conv.target)

\* client.fields.destroy(mcField.id) of the step: the field of the loop is
\* among the fields before it and not after it.
OriginalDestroyed ==
    /\ Converting("data")
    /\ \A i \in 1..Len(fields') : fields'[i].id # CurrentMcField.id

\* C35: the original container field is destroyed only after every record of
\* its model that holds target-type instances in it has the ids of their new
\* records in the temporary or companion links field.
DestroyedAfterReferencesWritten ==
    [][OriginalDestroyed
          => \A r \in DOMAIN records :
                records[r].type = CurrentMcField.parentModelId => ReferencesWritten(r)]_vars

-----------------------------------------------------------------------------
(* Fields inside a block reached by several nested paths                    *)

\* The record ids a value references anywhere inside it: the ids of link and
\* links values, of inlineItem nodes and of the links array of a document,
\* down through the attributes of the blocks it holds.
RECURSIVE RefsInValue(_), RefsInNodes(_), RefsInAttributes(_)
RefsInValue(value) ==
    IF value.k = "loc" THEN UNION {RefsInValue(value.v[l]) : l \in DOMAIN value.v}
    ELSE IF value.k = "list"
    THEN UNION {RefsInAttributes(getBlockAttributes(b)) : b \in Range(value.items)}
    ELSE IF value.k = "block" THEN RefsInAttributes(getBlockAttributes(value.b))
    ELSE IF value.k = "dast"
    THEN RefsInNodes(value.children) \cup {l.id : l \in Range(value.links)}
    ELSE LinkIdsIn(value)

RefsInNodes(children) ==
    UNION {IF n.type = "inlineItem" THEN {n.item.id}
           ELSE IF isBlockNode(n) \/ isInlineBlockNode(n)
           THEN RefsInAttributes(getBlockAttributes(n.item))
           ELSE RefsInNodes(n.children) : n \in Range(children)}

RefsInAttributes(attributes) ==
    UNION {RefsInValue(attributes[k]) : k \in DOMAIN attributes}

\* The paths that end in the same field as path p, p included.
PathsToFieldOf(p) ==
    {q \in 1..Len(nestedPaths) :
        /\ nestedPaths[q].fieldInfo.parentModelId = nestedPaths[p].fieldInfo.parentModelId
        /\ nestedPaths[q].path[Len(nestedPaths[q].path)].fieldApiKey
              = nestedPaths[p].path[Len(nestedPaths[p].path)].fieldApiKey}

\* The field path p ends in sits inside a block that several paths reach.
SeveralPathsToField(p) ==
    /\ nestedPaths[p].fieldInfo.parentIsBlock
    /\ Cardinality(PathsToFieldOf(p)) > 1

\* The mapped instances record r held along path p before the conversion
\* have their new records referenced in the root field of the path.
PathReferencesWritten(p, r) ==
    \A x \in ReachedFrom(RunRecords[r].f, nestedPaths[p].path, 1, NoLocale, TargetBlock) :
        x.blockId \in DOMAIN globalMapping
            => globalMapping[x.blockId]
                  \in RefsInValue(FieldValueOf(records[r].f,
                                               nestedPaths[p].path[1].fieldApiKey))

\* C36: after a successful conversion, for a field inside a block that
\* several nested paths reach, the records of every such path reference the
\* new record of every mapped instance along the path.
EveryPathMigrated ==
    pc = "done"
        => \A p \in 1..Len(nestedPaths) :
              SeveralPathsToField(p)
                 => \A r \in Range(RecordsOfType(nestedPaths[p].rootModelId)) :
                       PathReferencesWritten(p, r)

\* The same for the first of the paths only.
FirstPathMigrated ==
    pc = "done"
        => \A p \in 1..Len(nestedPaths) :
              (SeveralPathsToField(p) /\ \A q \in PathsToFieldOf(p) : p <= q)
                 => \A r \in Range(RecordsOfType(nestedPaths[p].rootModelId)) :
                       PathReferencesWritten(p, r)

-----------------------------------------------------------------------------
(* Record values after a partial conversion                                 *)

\* Field i of the run is a rich_text field that keeps other block types and
\* whose validator no longer allows the target.
PartiallyConverted(i) ==
    LET m == modularContentFields[i]
    IN  /\ m.fieldType = "rich_text"
        /\ remainingBlockIds(m) # {}
        /\ FieldExists(m.id)
        /\ TargetBlock \notin FieldById(m.id).blocks

\* No record of the field's model holds a target instance in the field.
RootValuesClean(m) ==
    \A r \in Range(RecordsOfType(m.parentModelId)) : HeldInstances(r, m.apiKey) = {}

\* No record of a root model holds, along a path that ends in the field, a
\* target instance.
NestedValuesClean(m) ==
    \A p \in 1..Len(nestedPaths) :
        (/\ nestedPaths[p].fieldInfo.parentModelId = m.parentModelId
         /\ nestedPaths[p].path[Len(nestedPaths[p].path)].fieldApiKey = m.apiKey)
            => \A r \in Range(RecordsOfType(nestedPaths[p].rootModelId)) :
                  ReachedFrom(records[r].f, nestedPaths[p].path, 1, NoLocale,
                              TargetBlock) = {}

\* C37: after a conversion that removed the target type from the allowed
\* types of a rich_text field that keeps other types, no record value of the
\* field, on a root model or inside a block, holds a target instance.
NoTargetInstanceLeft ==
    pc = "done"
        => \A i \in 1..Len(modularContentFields) :
              PartiallyConverted(i)
                 => IF modularContentFields[i].parentIsBlock
                    THEN NestedValuesClean(modularContentFields[i])
                    ELSE RootValuesClean(modularContentFields[i])

-----------------------------------------------------------------------------
(* The count of migrated records                                            *)

\* C38: when the conversion returns success, migratedRecordsCount is the
\* number of records the run has created.
CountIsCreatedRecords == pc = "done" => migratedRecordsCount = Len(created)

-----------------------------------------------------------------------------
(* renameModelToOriginal                                                    *)
(* handleConvert calls it after deleteOriginalBlock, with the name and the  *)
(* api_key the deleted block had.  A request is rejected when another item  *)
(* type has the api_key or the name it submits; any request can also fail   *)
(* for a reason of its own.                                                 *)

\* api_key and name of the deleted block: result.originalBlockApiKey and
\* result.originalBlockName
OriginalApiKeys == {<<"h", "e", "r", "o">>, <<"n", "e", "w", "s">>, <<"c", "t", "a", "_", "2">>}
OriginalNames == {<<"H", "e", "r", "o">>, <<"N", "e", "w", "s">>}

\* What other item types hold when the call is made: nothing of the block,
\* its api_key with an "s", that and the api_key itself, or those and the name.
TakenChoices == {"none", "plural", "keys", "all"}

OtherModels(originalApiKey, originalName, taken) ==
    <<[id |-> "R1", modular_block |-> FALSE, api_key |-> <<"p", "a", "g", "e", "s">>,
       name |-> <<"P", "a", "g", "e">>]>>
    \o (IF taken \in {"plural", "keys", "all"}
        THEN <<[id |-> "M1", modular_block |-> FALSE,
                api_key |-> originalApiKey \o <<"s">>,
                name |-> IF taken = "all" THEN originalName ELSE <<"M", "1">>]>>
        ELSE <<>>)
    \o (IF taken \in {"keys", "all"}
        THEN <<[id |-> "M2", modular_block |-> FALSE, api_key |-> originalApiKey,
                name |-> <<"M", "2">>]>>
        ELSE <<>>)

\* The call has not started; its arguments are those of the result.
RenameCall(originalName, originalApiKey) ==
    [stage |-> "idle", originalName |-> originalName, originalApiKey |-> originalApiKey,
     targetApiKey |-> <<>>, finalName |-> <<>>, finalApiKey |-> <<>>,
     partialError |-> FALSE,
     result |-> [success |-> FALSE, finalName |-> <<>>, finalApiKey |-> <<>>]]

\* The conversion has returned success and the original block is deleted.
InitRename ==
    /\ \E originalApiKey \in OriginalApiKeys, originalName \in OriginalNames,
          taken \in TakenChoices :
          /\ itemTypes = OtherModels(originalApiKey, originalName, taken)
                \o <<[id |-> NewModelId, modular_block |-> FALSE,
                      api_key |-> ValidatedApiKey(CandidateApiKey(originalApiKey, <<>>, 0)),
                      name |-> CandidateName(originalName, <<>>, 0)]>>
          /\ rename = RenameCall(originalName, originalApiKey)
    /\ fields = <<>>
    /\ records = <<>>
    /\ fullyReplace = FALSE
    /\ pc = "done"
    /\ modularContentFields = <<>>
    /\ nestedPaths = <<>>
    /\ search = NoSearch
    /\ screen = NoScreen
    /\ cache = NoCache
    /\ runs = <<>>
    /\ created = <<>>
    /\ newModel = NewModelId
    /\ globalMapping = <<>>
    /\ pathIdx = 1
    /\ mapper = MapperIdle
    /\ migratedRecordsCount = 0
    /\ fieldIdx = 1
    /\ conv = ConvIdle
    /\ convertedFieldsCount = 0
    /\ lastWrite = NoWrite
    /\ failures = 0
    /\ calls = 0

\* What the call leaves alone.
RenameFrame ==
    UNCHANGED <<fields, records, pc, fullyReplace, modularContentFields, nestedPaths,
                search, screen, cache, runs, newModel, mapVars, convVars>>

\* targetApiKey: lower case, other characters to "_", runs of "_" to one, one
\* "_" off each end
TargetApiKey(originalApiKey) ==
    LET lowered == toLowerCase(originalApiKey)
        replaced == [i \in 1..Len(lowered) |->
                        IF IsLowerLetter(lowered[i]) \/ IsDigit(lowered[i])
                           \/ lowered[i] = "_"
                        THEN lowered[i] ELSE "_"]
    IN  StripOneEachEnd(CollapseUnderscores(replaced))

\* targetApiKey.endsWith('s')
EndsWithS(apiKey) == apiKey # <<>> /\ apiKey[Len(apiKey)] = "s"

\* The server rejects an api_key: empty, or another item type has it.
ApiKeyRejected(apiKey) ==
    \/ apiKey = <<>>
    \/ \E i \in 1..Len(itemTypes) :
          itemTypes[i].id # newModel /\ itemTypes[i].api_key = apiKey

\* The server rejects a name: another item type has it.
NameRejected(name) ==
    \E i \in 1..Len(itemTypes) : itemTypes[i].id # newModel /\ itemTypes[i].name = name

\* The server rejects client.itemTypes.update(modelId, body).
UpdateRejected(withApiKey, apiKey, name) ==
    NameRejected(name) \/ (withApiKey /\ ApiKeyRejected(apiKey))

\* The request is applied.
ModelUpdated(withApiKey, apiKey, name) ==
    itemTypes' = [i \in 1..Len(itemTypes) |->
                     IF itemTypes[i].id # newModel THEN itemTypes[i]
                     ELSE IF withApiKey
                     THEN [itemTypes[i] EXCEPT !.name = name, !.api_key = apiKey]
                     ELSE [itemTypes[i] EXCEPT !.name = name]]

\* A request fails: rejected by the server, or for a reason of its own.
RequestFails(rejected) ==
    IF rejected THEN UNCHANGED failures
    ELSE failures < MaxFailures /\ failures' = failures + 1

\* The call up to its first await: the locals, then the update with the
\* original name and the target api_key.
BeginRename ==
    /\ rename.stage = "idle"
    /\ rename' = [rename EXCEPT !.stage = "first",
                                !.targetApiKey = TargetApiKey(rename.originalApiKey),
                                !.finalName = rename.originalName,
                                !.finalApiKey = TargetApiKey(rename.originalApiKey)]
    /\ UNCHANGED <<itemTypes, failures>>
    /\ RenameFrame

\* The first update succeeds.
FirstUpdateOk ==
    /\ rename.stage = "first"
    /\ ~UpdateRejected(TRUE, rename.targetApiKey, rename.originalName)
    /\ ModelUpdated(TRUE, rename.targetApiKey, rename.originalName)
    /\ rename' = [rename EXCEPT !.stage = "menu", !.finalApiKey = rename.targetApiKey]
    /\ UNCHANGED failures
    /\ RenameFrame

\* The first update fails.  The message names api_key or plural when the
\* server rejects the api_key; for other failures it may or may not.  With
\* such a message the plural key is tried when the target key does not end
\* in "s", and nothing is tried when it does; with another message the name
\* alone is tried.
FirstUpdateFails ==
    /\ rename.stage = "first"
    /\ \E namesApiKey \in BOOLEAN :
          /\ ApiKeyRejected(rename.targetApiKey) => namesApiKey
          /\ RequestFails(UpdateRejected(TRUE, rename.targetApiKey, rename.originalName))
          /\ rename' = [rename EXCEPT !.stage =
                           IF namesApiKey
                           THEN (IF ~EndsWithS(rename.targetApiKey) THEN "plural" ELSE "menu")
                           ELSE "nameOnly"]
    /\ UNCHANGED itemTypes
    /\ RenameFrame

\* The update with the plural api_key succeeds.
PluralUpdateOk ==
    /\ rename.stage = "plural"
    /\ ~UpdateRejected(TRUE, rename.targetApiKey \o <<"s">>, rename.originalName)
    /\ ModelUpdated(TRUE, rename.targetApiKey \o <<"s">>, rename.originalName)
    /\ rename' = [rename EXCEPT !.stage = "menu",
                                !.finalApiKey = rename.targetApiKey \o <<"s">>]
    /\ UNCHANGED failures
    /\ RenameFrame

\* It fails: the name alone is tried.
PluralUpdateFails ==
    /\ rename.stage = "plural"
    /\ RequestFails(UpdateRejected(TRUE, rename.targetApiKey \o <<"s">>,
                                   rename.originalName))
    /\ rename' = [rename EXCEPT !.stage = "nameOnly"]
    /\ UNCHANGED itemTypes
    /\ RenameFrame

\* The update of the name alone succeeds; the model is requested.
NameUpdateOk ==
    /\ rename.stage = "nameOnly"
    /\ ~UpdateRejected(FALSE, <<>>, rename.originalName)
    /\ ModelUpdated(FALSE, <<>>, rename.originalName)
    /\ rename' = [rename EXCEPT !.stage = "find"]
    /\ UNCHANGED failures
    /\ RenameFrame

\* It fails: the earlier error is thrown to the outer catch.
NameUpdateFails ==
    /\ rename.stage = "nameOnly"
    /\ RequestFails(UpdateRejected(FALSE, <<>>, rename.originalName))
    /\ rename' = [rename EXCEPT !.stage = "caught"]
    /\ UNCHANGED itemTypes
    /\ RenameFrame

\* client.itemTypes.find returns: the api_key the model has.
FindOk ==
    /\ rename.stage = "find"
    /\ rename' = [rename EXCEPT !.stage = "menu",
                                !.finalApiKey = ItemTypeById(newModel).api_key,
                                !.partialError = TRUE]
    /\ UNCHANGED <<itemTypes, failures>>
    /\ RenameFrame

\* It fails inside the same try: the earlier error is thrown.
FindFails ==
    /\ rename.stage = "find"
    /\ RequestFails(FALSE)
    /\ rename' = [rename EXCEPT !.stage = "caught"]
    /\ UNCHANGED itemTypes
    /\ RenameFrame

\* The success result.
Returned(partialError) ==
    rename' = [rename EXCEPT !.stage = "returned",
                             !.partialError = partialError,
                             !.result = [success |-> TRUE,
                                         finalName |-> rename.finalName,
                                         finalApiKey |-> rename.finalApiKey]]

\* The menu item requests succeed (label updated, or no menu item).
MenuLabelOk ==
    /\ rename.stage = "menu"
    /\ Returned(rename.partialError)
    /\ UNCHANGED <<itemTypes, failures>>
    /\ RenameFrame

\* A menu item request fails: a note in the error, the result is the same.
MenuLabelFails ==
    /\ rename.stage = "menu"
    /\ RequestFails(FALSE)
    /\ Returned(TRUE)
    /\ UNCHANGED itemTypes
    /\ RenameFrame

\* The outer catch: the failure result with what the model has now.
CaughtFindOk ==
    /\ rename.stage = "caught"
    /\ rename' = [rename EXCEPT !.stage = "returned",
                                !.result = [success |-> FALSE,
                                            finalName |-> ItemTypeById(newModel).name,
                                            finalApiKey |-> ItemTypeById(newModel).api_key]]
    /\ UNCHANGED <<itemTypes, failures>>
    /\ RenameFrame

\* The find of the outer catch fails too: the failure result with empty
\* strings.
CaughtFindFails ==
    /\ rename.stage = "caught"
    /\ RequestFails(FALSE)
    /\ rename' = [rename EXCEPT !.stage = "returned",
                                !.result = [success |-> FALSE, finalName |-> <<>>,
                                            finalApiKey |-> <<>>]]
    /\ UNCHANGED itemTypes
    /\ RenameFrame

NextRename ==
    \/ BeginRename
    \/ FirstUpdateOk
    \/ FirstUpdateFails
    \/ PluralUpdateOk
    \/ PluralUpdateFails
    \/ NameUpdateOk
    \/ NameUpdateFails
    \/ FindOk
    \/ FindFails
    \/ MenuLabelOk
    \/ MenuLabelFails
    \/ CaughtFindOk
    \/ CaughtFindFails

SpecRename == InitRename /\ [][NextRename]_vars

\* C40: when renameModelToOriginal has returned success: true, the model has
\* the original name, and the finalApiKey of the result is the api_key the
\* model has.
RenameSuccessIsActual ==
    (rename.stage = "returned" /\ rename.result.success)
        => /\ ItemTypeById(newModel).name = rename.originalName
           /\ ItemTypeById(newModel).api_key = rename.result.finalApiKey

\* The same for target keys that do not end in "s".
RenameSuccessIsActualNoS ==
    (rename.stage = "returned" /\ rename.result.success
        /\ ~EndsWithS(rename.targetApiKey))
        => /\ ItemTypeById(newModel).name = rename.originalName
           /\ ItemTypeById(newModel).api_key = rename.result.finalApiKey
====
